---- MODULE Spec2Model ----
(***************************************************************************)
(* A model of the heartbeat acquisition daemon: the frame decoder          *)
(* (capture/data.rs, serial/data.rs), the capture file writer              *)
(* (capture/file.rs), the storage service and its upload worker            *)
(* (service/storage/mod.rs) and the acquisition loop with its signal       *)
(* handler (main.rs).                                                      *)
(*                                                                         *)
(* Text is a sequence of one-character strings.  Integers of the program   *)
(* are the model's integers; a u64 is held by its two's complement         *)
(* reading (r >= 0 stands for r, r < 0 for 2^64 + r), which makes wrapping *)
(* addition plain addition and keeps every value the model reaches small.  *)
(***************************************************************************)
EXTENDS Integers, Sequences, FiniteSets, TLC

(***************************************************************************)
(* Bounds of the model.                                                    *)
(***************************************************************************)
\* Longest sample block of the generated decoder inputs.
MaxSamples == 2

\* Most tasks a client of the storage service enqueues.
MaxTasks == 3

\* The resolution of the clock: ticks in one second.
TicksPerSecond == 2

\* The configured rotation interval, in seconds.
RotateInterval == 2

\* How many rotation intervals the clock runs past the first boundary.
HorizonIntervals == 2

\* Most iterations of the acquisition loop.
MaxIters == 2

\* Most calls a client of the capture file writer makes.
MaxCalls == 4

----------------------------------------------------------------------------
(***************************************************************************)
(* Text helpers (std::str).                                                *)
(***************************************************************************)
DigitChars == <<"0", "1", "2", "3", "4", "5", "6", "7", "8", "9">>

IsDigit(c) == \E i \in 1..10 : DigitChars[i] = c

DigitVal(c) == (CHOOSE i \in 1..10 : DigitChars[i] = c) - 1

AllDigits(s) == \A i \in 1..Len(s) : IsDigit(s[i])

RECURSIVE NatVal(_)
NatVal(s) ==
    IF s = <<>> THEN 0
    ELSE 10 * NatVal(SubSeq(s, 1, Len(s) - 1)) + DigitVal(s[Len(s)])

\* str::starts_with(char)
StartsWith(s, c) == Len(s) > 0 /\ s[1] = c

\* line.chars().skip(1).collect::<String>()
SkipFirst(s) == IF s = <<>> THEN <<>> ELSE Tail(s)

\* str::contains(char)
Contains(s, c) == \E i \in 1..Len(s) : s[i] = c

\* str::split(','): the tokens between the commas; "" yields one empty token.
RECURSIVE SplitComma(_)
SplitComma(s) ==
    IF ~Contains(s, ",") THEN <<s>>
    ELSE LET i == CHOOSE k \in 1..Len(s) :
                     s[k] = "," /\ \A j \in 1..(k - 1) : s[j] # ","
         IN  <<SubSeq(s, 1, i - 1)>> \o SplitComma(SubSeq(s, i + 1, Len(s)))

RECURSIVE StripZeros(_)
StripZeros(s) ==
    IF Len(s) > 1 /\ s[1] = "0" THEN StripZeros(Tail(s)) ELSE s

(***************************************************************************)
(* Option<integer>.                                                        *)
(***************************************************************************)
None == [some |-> FALSE, v |-> 0]

Some(x) == [some |-> TRUE, v |-> x]

(***************************************************************************)
(* str::parse::<iN/uN>(): an optional sign ('-' for signed types only),    *)
(* then one or more digits and nothing else.  The range check of each type *)
(* is made by its caller below; a numeral of more than 19 digits is out of *)
(* the range of every type.                                                *)
(***************************************************************************)
ParseInteger(tok, signed) ==
    LET hasSign == tok # <<>> /\ (tok[1] = "+" \/ (signed /\ tok[1] = "-"))
        digits  == IF hasSign THEN Tail(tok) ELSE tok
        mag     == NatVal(digits)
    IN  IF digits = <<>> \/ ~AllDigits(digits) THEN None
        ELSE IF Len(StripZeros(digits)) > 19 THEN None
        ELSE IF hasSign /\ tok[1] = "-" THEN Some(0 - mag)
        ELSE Some(mag)

\* part.parse::<i64>(): every numeral the model's integers hold is an i64.
ParseI64(tok) == ParseInteger(tok, TRUE)

\* part.parse::<i16>()
ParseI16(tok) ==
    LET r == ParseInteger(tok, TRUE)
    IN  IF r.some /\ (r.v < -32768 \/ r.v > 32767) THEN None ELSE r

\* part.parse::<u16>()
ParseU16(tok) ==
    LET r == ParseInteger(tok, FALSE)
    IN  IF r.some /\ r.v > 65535 THEN None ELSE r

(***************************************************************************)
(* part.parse::<f32>() on the decimal notation: an optional sign, digits   *)
(* with at most one '.', at least one digit.  The value is kept as its     *)
(* decimal text.                                                           *)
(***************************************************************************)
ParseF32(tok) ==
    LET body == IF tok # <<>> /\ tok[1] \in {"+", "-"} THEN Tail(tok) ELSE tok
        dots == {i \in 1..Len(body) : body[i] = "."}
    IN  IF /\ body # <<>>
           /\ \A i \in 1..Len(body) : IsDigit(body[i]) \/ body[i] = "."
           /\ Cardinality(dots) <= 1
           /\ \E i \in 1..Len(body) : IsDigit(body[i])
        THEN [some |-> TRUE, v |-> tok]
        ELSE [some |-> FALSE, v |-> <<>>]

(***************************************************************************)
(* u64 arithmetic.  Pow64Digits is 2^64, one past u64::MAX.                *)
(***************************************************************************)
Pow64Digits ==
    <<"1", "8", "4", "4", "6", "7", "4", "4", "0", "7", "3",
      "7", "0", "9", "5", "5", "1", "6", "1", "6">>

\* The decimal numeral d (digits only) as a u64: None when it exceeds u64::MAX.
\* Numerals of up to ten digits and those within 10^9 of 2^64 are exact; any
\* other numeral of 11 to 20 digits is a u64 that no sum of the model equals.
U64FromDigits(d) ==
    LET z == StripZeros(d)
    IN  IF Len(z) <= 10 THEN Some(NatVal(z))
        ELSE IF Len(z) > 20 THEN None
        ELSE IF Len(z) = 20 /\ SubSeq(z, 1, 11) = SubSeq(Pow64Digits, 1, 11)
             THEN LET r == NatVal(SubSeq(z, 12, 20))
                           - NatVal(SubSeq(Pow64Digits, 12, 20))
                  IN  IF r >= 0 THEN None ELSE Some(r)
        ELSE Some(-2147483647)

\* `value as u64`: the same bits, read unsigned.
AsU64(value) == value

\* Whether the unsigned addition a + b carries out of 64 bits.
U64AddOverflows(a, b) ==
    \/ a < 0 /\ b < 0
    \/ (a < 0) # (b < 0) /\ a + b >= 0

\* a + b modulo 2^64.
U64WrappingAdd(a, b) == a + b

(***************************************************************************)
(* atoi::atoi::<u64>(bytes): an optional sign, then the longest run of     *)
(* digits; None when there is no digit, when the value exceeds u64::MAX or *)
(* when a '-' is followed by a non-zero value.                             *)
(***************************************************************************)
DigitPrefixLen(s) ==
    IF AllDigits(s) THEN Len(s)
    ELSE (CHOOSE k \in 1..Len(s) :
              ~IsDigit(s[k]) /\ \A j \in 1..(k - 1) : IsDigit(s[j])) - 1

AtoiU64(tok) ==
    LET hasSign == tok # <<>> /\ tok[1] \in {"+", "-"}
        rest    == IF hasSign THEN Tail(tok) ELSE tok
        digits  == SubSeq(rest, 1, DigitPrefixLen(rest))
        value   == U64FromDigits(digits)
    IN  IF digits = <<>> THEN None
        ELSE IF hasSign /\ tok[1] = "-" /\ StripZeros(digits) # <<"0">> THEN None
        ELSE value

----------------------------------------------------------------------------
(***************************************************************************)
(* The frame decoder: DataPoint::parse (capture/data.rs) and Frame::parse  *)
(* (serial/data.rs).  A result is Ok with one frame, Err with a message,   *)
(* or a panic of the calling thread.                                       *)
(***************************************************************************)
Ok(frame) == [tag |-> "Ok", msg |-> <<>>, frame |-> <<frame>>]

Err(what, field) == [tag |-> "Err", msg |-> <<what, field>>, frame |-> <<>>]

Panic(what) == [tag |-> "Panic", msg |-> <<what>>, frame |-> <<>>]

\* Flags parsed with the clipping flag read from the GPS letter.
DataPointFlagsParseTied(tok) ==
    [has_gps_fix |-> Contains(tok, "G"), is_clipping |-> Contains(tok, "G")]

\* DataPointFlags::parse / FrameMetadata::parse
DataPointFlagsParse(tok) ==
    [has_gps_fix |-> Contains(tok, "G"), is_clipping |-> Contains(tok, "O")]

\* The ten header fields in wire order, as the error messages name them.
FieldName ==
    <<"timestamp", "flags", "sample rate", "latitude", "longitude",
      "elevation", "fix", "speed", "angle", "data count">>

\* A decoder that treated the timestamp as the other numeric fields.
FieldParsesStrict(i, tok) ==
    CASE i = 1         -> ParseI64(tok).some
      [] i = 2         -> TRUE
      [] i \in {7, 10} -> ParseU16(tok).some
      [] OTHER         -> ParseF32(tok).some

\* Whether header token i parses: the timestamp and the flags never fail.
FieldParses(i, tok) ==
    CASE i \in {1, 2}  -> TRUE
      [] i \in {7, 10} -> ParseU16(tok).some
      [] OTHER         -> ParseF32(tok).some

\* The first header field that is missing or does not parse; 0 when none.
FirstBadField(tokens) ==
    LET bad == {i \in 1..10 : i > Len(tokens) \/ ~FieldParses(i, tokens[i])}
    IN  IF bad = {} THEN 0 ELSE CHOOSE i \in bad : \A j \in bad : i <= j

\* data.push((value - 512) as f64 / 512.0): the quotient, kept exact.
Normalize(value) == [num |-> value - 512, den |-> 512]

\* data.push(value) of Frame::parse
RawSample(value) == value

\* The sample type of each decoder: i64 in DataPoint::parse, i16 in Frame::parse.
ParseSample(decoder, tok) ==
    IF decoder = "DataPoint" THEN ParseI64(tok) ELSE ParseI16(tok)

PushSample(decoder, value) ==
    IF decoder = "DataPoint" THEN Normalize(value) ELSE RawSample(value)

(***************************************************************************)
(* The sample loop, `for _ in 10..10usize + data_count`: k is the next     *)
(* token, n the samples still to read.  `sum += value as u64` panics on    *)
(* overflow in a build with overflow checks and wraps in one without.      *)
(***************************************************************************)
RECURSIVE SampleLoop(_, _, _, _, _, _, _)
SampleLoop(tokens, k, n, sum, data, build, decoder) ==
    IF n = 0 THEN [tag |-> "Next", msg |-> <<>>, sum |-> sum, data |-> data]
    ELSE IF k > Len(tokens)
    THEN [tag |-> "Err", msg |-> <<"Missing", "data">>, sum |-> sum, data |-> data]
    ELSE LET r == ParseSample(decoder, tokens[k])
         IN  IF ~r.some
             THEN [tag |-> "Err", msg |-> <<"Failed to parse", "data">>,
                   sum |-> sum, data |-> data]
             ELSE IF build = "debug" /\ U64AddOverflows(sum, AsU64(r.v))
             THEN [tag |-> "Panic", msg |-> <<"attempt to add with overflow">>,
                   sum |-> sum, data |-> data]
             ELSE SampleLoop(tokens, k + 1, n - 1,
                             U64WrappingAdd(sum, AsU64(r.v)),
                             Append(data, PushSample(decoder, r.v)),
                             build, decoder)

\* The body shared by the two decoders, which differ in the sample type.
ParseLine(line, build, decoder) ==
    LET text   == IF StartsWith(line, "$") THEN SkipFirst(line) ELSE line
        tokens == SplitComma(text)
        bad    == FirstBadField(tokens)
    IN  IF bad # 0
        THEN IF bad > Len(tokens) THEN Err("Missing", FieldName[bad])
             ELSE Err("Failed to parse", FieldName[bad])
        ELSE
        LET data_count == ParseU16(tokens[10]).v
            loop == SampleLoop(tokens, 11, data_count, 0, <<>>, build, decoder)
            ck   == 10 + data_count + 1
        IN  IF loop.tag = "Err" THEN Err(loop.msg[1], loop.msg[2])
            ELSE IF loop.tag = "Panic" THEN Panic(loop.msg[1])
            ELSE IF ck > Len(tokens) THEN Err("Missing", "checksum")
            ELSE LET checksum == AtoiU64(tokens[ck])
                 IN  IF ~checksum.some
                     THEN Panic("called Option::unwrap on a None value")
                     ELSE IF checksum.v # loop.sum THEN Err("Checksum failed", "")
                     ELSE Ok([timestamp   |-> ParseI64(tokens[1]),
                              flags       |-> DataPointFlagsParse(tokens[2]),
                              sample_rate |-> ParseF32(tokens[3]).v,
                              latitude    |-> ParseF32(tokens[4]).v,
                              longitude   |-> ParseF32(tokens[5]).v,
                              elevation   |-> ParseF32(tokens[6]).v,
                              fix         |-> ParseU16(tokens[7]).v,
                              speed       |-> ParseF32(tokens[8]).v,
                              angle       |-> ParseF32(tokens[9]).v,
                              data        |-> loop.data])

\* DataPoint::parse
DataPointParse(line, build) == ParseLine(line, build, "DataPoint")

\* Frame::parse
FrameParse(line, build) == ParseLine(line, build, "Frame")

----------------------------------------------------------------------------
(***************************************************************************)
(* State.                                                                  *)
(***************************************************************************)
VARIABLES
    \* the decoder
    build,          \* "debug": arithmetic overflow panics; "release": it wraps
    line,           \* the line handed to the decoder
    pres,           \* the result of DataPoint::parse(line)
    fres,           \* the result of Frame::parse(line)
    \* StorageServiceInner and its worker thread
    clientOk,       \* whether get_client() succeeds with the service's settings
    upload_queue,   \* VecDeque<UploadArgs>, head first
    handle,         \* Option<JoinHandle>: "none" or "some"
    cancelled,      \* cancellation_token
    innerLocked,    \* the service's `inner` mutex is held by a shutdown in progress
    wpc,            \* the worker's position
    inflight,       \* the task the worker popped and is uploading: <<>> or <<task>>
    sdpc,           \* the position of the caller of shutdown()
    sdResult,       \* what shutdown() returned: "none", "Ok" or "Err"
    \* history of the queue
    enqueued,       \* every task passed to queue_upload, in call order
    uploaded,       \* the seq numbers of the tasks uploaded, in upload order
    everFailed,     \* the seq numbers of the tasks an attempt of which failed
    tickLog,        \* the attempts of the current poll tick, oldest first
    stored,         \* the tasks upload_object stored, with what gzip did after
    enqAtPop,       \* the number of tasks enqueued when the worker last popped
    \* main(): the acquisition loop and the signal handler
    now,            \* wall-clock time, in ticks of 1/TicksPerSecond s
    mpc,            \* main's position
    exited,         \* the process has ended
    shutdown,       \* the AtomicBool the signal handler stores
    tick_start,     \* Utc::now() at the top of the iteration
    last_rotate,    \* the time of the last rotation
    metadata,       \* main's CaptureFileMetadata
    extrasOrder,    \* the iteration order of the extras HashMap
    port,           \* the lines the serial device may send
    deadline,       \* the clock value at which the model stops the clock
    writer,         \* the CaptureFileWriter in use: <<>> or <<writer>>
    files,          \* the capture directory: filename -> chunks written
    lastRead,       \* what the last serial read gave and what handling it did
    pushed,         \* the number of frames given to status_service.push_data
    iters,          \* the number of loop iterations begun
    reading,        \* the blocking read tasks that hold the port's mutex
    queuedReads,    \* the abandoned read tasks that wait for the port's mutex
    lateReads,      \* the number of lines that abandoned reads returned
    \* history of the loop
    opened,         \* the filename of every capture file created, in order
    rotations,      \* the number of rotations begun
    \* history of a client of the capture file writer
    calls           \* the calls made, oldest first

parseVars == <<build, line, pres, fres>>

queueVars == <<clientOk, upload_queue, handle, cancelled, innerLocked, wpc, inflight,
               sdpc, sdResult>>

histVars == <<enqueued, uploaded, everFailed, tickLog, stored, enqAtPop>>

portVars == <<reading, queuedReads, lateReads>>

loopVars == <<now, mpc, exited, shutdown, tick_start, last_rotate, metadata,
              extrasOrder, port, deadline, writer, files, lastRead, pushed, iters, opened,
              rotations, calls, reading, queuedReads, lateReads>>

vars == <<parseVars, queueVars, histVars, loopVars>>

Builds == {"debug", "release"}

NotParsed == [tag |-> "None", msg |-> <<>>, frame |-> <<>>]

----------------------------------------------------------------------------
(***************************************************************************)
(* Decoder inputs: wire lines built from tokens.                           *)
(***************************************************************************)
RECURSIVE NatDigits(_)
NatDigits(n) ==
    IF n < 10 THEN <<DigitChars[n + 1]>>
    ELSE NatDigits(n \div 10) \o <<DigitChars[(n % 10) + 1]>>

\* The decimal numeral of an integer.
Numeral(n) == IF n < 0 THEN <<"-">> \o NatDigits(0 - n) ELSE NatDigits(n)

RECURSIVE JoinComma(_)
JoinComma(tokens) ==
    IF tokens = <<>> THEN <<>>
    ELSE IF Len(tokens) = 1 THEN tokens[1]
    ELSE tokens[1] \o <<",">> \o JoinComma(Tail(tokens))

\* "$" followed by the tokens, comma separated.
DataLine(tokens) == <<"$">> \o JoinComma(tokens)

\* The header of the specification's example frame, declaring n samples.
Header(ts, flags, n) ==
    <<ts, flags, Numeral(20000), <<"3", "7", ".", "1">>,
      <<"-", "1", "2", "2", ".", "1">>, <<"1", "0", ".", "0">>, Numeral(3),
      <<"4", "5", ".", "0">>, <<"1", ".", "0">>, Numeral(n)>>

GoodHeader(n) == Header(Numeral(1700000000), <<"G">>, n)

\* u64::MAX, the numeral of 2^64 - 1.
U64MaxDigits == SubSeq(Pow64Digits, 1, 19) \o <<"5">>

SampleTokens ==
    {Numeral(600), Numeral(424), Numeral(-1), Numeral(40000), <<"x">>}

SampleBlocks ==
    UNION {[1..n -> SampleTokens] : n \in 0..MaxSamples}

RECURSIVE SumOf(_)
SumOf(values) ==
    IF values = <<>> THEN 0 ELSE values[1] + SumOf(Tail(values))

\* The sum of the integers among a block's tokens.
BlockSum(block) ==
    SumOf([i \in 1..Len(block) |->
              IF ParseI64(block[i]).some THEN ParseI64(block[i]).v ELSE 0])

\* Checksum fields tried after a block: right, off by one, with the line's
\* trailing newline, not a number, empty, 2^64 - 1, 2^64, and absent.
ChecksumFields(block) ==
    LET s == BlockSum(block)
    IN  {<<Numeral(s)>>, <<Numeral(s + 1)>>, <<Numeral(s) \o <<"\n">>>>,
         <<<<"x">>>>, <<<<>>>>, <<U64MaxDigits>>, <<Pow64Digits>>, <<>>,
         <<Numeral(s), Numeral(7)>>}

\* Lines with a good header and every sample block, count and checksum field.
BodyLines ==
    {DataLine(GoodHeader(n) \o b \o c) :
        n \in 0..(MaxSamples + 1), b \in SampleBlocks,
        c \in UNION {ChecksumFields(bb) : bb \in SampleBlocks}}

ExampleBody == <<Numeral(600), Numeral(424), Numeral(1024)>>

\* Lines with the example's samples and every header: other timestamps and
\* flags, one header field replaced by text, and the header cut short.
HeaderLines ==
    {DataLine(Header(ts, fl, 2) \o ExampleBody) :
        ts \in {Numeral(1700000000), <<"x">>, <<>>},
        fl \in {<<"G">>, <<"O">>, <<"G", "O">>, <<"x">>, <<>>}}
    \cup {DataLine([GoodHeader(2) EXCEPT ![i] = <<"x">>] \o ExampleBody) :
            i \in 3..10}
    \cup {DataLine(SubSeq(GoodHeader(2), 1, k)) : k \in 0..9}

ParseInputs == BodyLines \cup HeaderLines

----------------------------------------------------------------------------
(***************************************************************************)
(* Wall-clock time and the configuration.                                  *)
(***************************************************************************)
\* config.acquire.rotate_interval_seconds, in ticks.
IntervalTicks == RotateInterval * TicksPerSecond

\* The clock when the process starts: one tick before an interval boundary,
\* long after the epoch.
StartTime == 3 * IntervalTicks - 1

\* The clock stops the model HorizonIntervals intervals later.
MaxTime == StartTime + HorizonIntervals * IntervalTicks + 1

\* user.node_id, config.acquire.data_dir, config.storage.bucket
NodeId == <<"n", "7">>

DataDir == <<"d", "a", "t", "a">>

Bucket == <<"b", "k", "t">>

\* Uuid::new_v4(), as text.
CaptureId == <<"3", "f", "a", "9", "0", "c", "1", "e", "-", "7", "7">>

ExtrasKeys == {"NODE_ID", "CREATED", "VERSION"}

\* CaptureFileMetadata::new(Uuid::new_v4(), 20000.0), then set("NODE_ID", ..)
MetadataNew(capture_id, sample_rate) ==
    [capture_id |-> capture_id, sample_rate |-> sample_rate, extras |-> <<>>]

\* A map whose insert kept the value a key already has.
MetadataSetKeepsFirst(m, key, value) ==
    [m EXCEPT !.extras =
        [k \in (DOMAIN m.extras) \cup {key} |->
            IF k \in DOMAIN m.extras THEN m.extras[k] ELSE value]]

\* CaptureFileMetadata::set: HashMap::insert
MetadataSet(m, key, value) ==
    [m EXCEPT !.extras =
        [k \in (DOMAIN m.extras) \cup {key} |->
            IF k = key THEN value ELSE m.extras[k]]]

NoRead == [kind |-> "none", err |-> "", wrote |-> <<>>, pushed |-> FALSE]

\* The state of main() in a run that does not reach it.
LoopIdle ==
    /\ now = StartTime
    /\ mpc = "client"
    /\ exited = FALSE
    /\ shutdown = FALSE
    /\ tick_start = 0
    /\ last_rotate = 0
    /\ metadata = MetadataNew(CaptureId, Numeral(20000))
    /\ extrasOrder = <<"NODE_ID", "CREATED", "VERSION">>
    /\ port = {}
    /\ deadline = StartTime
    /\ writer = <<>>
    /\ files = <<>>
    /\ lastRead = NoRead
    /\ pushed = 0
    /\ iters = 0
    /\ reading = 0
    /\ queuedReads = 0
    /\ lateReads = 0
    /\ opened = <<>>
    /\ rotations = 0
    /\ calls = <<>>

----------------------------------------------------------------------------
(***************************************************************************)
(* The storage service (service/storage/mod.rs).                           *)
(***************************************************************************)
\* StorageServiceInner::new
QueueInit ==
    /\ upload_queue = <<>>
    /\ handle = "none"
    /\ cancelled = FALSE
    /\ innerLocked = FALSE
    /\ wpc = "unspawned"
    /\ inflight = <<>>
    /\ sdpc = "idle"
    /\ sdResult = "none"
    /\ enqueued = <<>>
    /\ uploaded = <<>>
    /\ everFailed = {}
    /\ tickLog = <<>>
    /\ stored = <<>>
    /\ enqAtPop = 0

\* UploadArgs::new; seq is the position of the task among the queue_upload
\* calls, kept to tell the tasks apart.
UploadArgs(bucket_name, file_path, object_path) ==
    [bucket_name |-> bucket_name, file_path |-> file_path,
     object_path |-> object_path, seq |-> 0]

\* A queue that takes a task at its head: push_front for push_back.
PushFront(queue, task) == <<task>> \o queue

\* queue.push_back(upload)
PushBack(queue, task) == Append(queue, task)

\* A worker that takes the newest task: pop_back for pop_front.
PopBack(queue) ==
    [task |-> queue[Len(queue)], rest |-> SubSeq(queue, 1, Len(queue) - 1)]

\* A worker that reads the head and leaves it in the queue.
PeekFront(queue) == [task |-> Head(queue), rest |-> queue]

\* queue.pop_front(): the task taken and the queue left.
PopFront(queue) == [task |-> Head(queue), rest |-> Tail(queue)]

\* A worker whose guard lives through the body of the drain loop, as with
\* `while let Some(upload) = queue.lock().await.pop_front()`.
QueueLockedWhileUploading(pc) == pc = "upload"

\* Whether the worker at position pc holds the lock of the queue.  The guard
\* of the pop is a local of the block `{ let mut queue = ..; queue.pop_front() }`
\* and the guard of the push a local of the Err arm; each is dropped within
\* the step that took it, so the worker holds none at any of its positions.
QueueLocked(pc) == FALSE

\* StorageService::queue_upload: takes the `inner` mutex, then the lock of
\* the queue, and pushes the task at the tail of the queue.
QueueUpload(args) ==
    LET task == [args EXCEPT !.seq = Len(enqueued) + 1]
    IN  /\ ~innerLocked
        /\ ~QueueLocked(wpc)
        /\ upload_queue' = PushBack(upload_queue, task)
        /\ enqueued' = Append(enqueued, task)

\* The worker arrives at `tokio::select!`: a token cancelled before the sleep
\* is created leaves only the cancellation branch.
SelectEntry == IF cancelled THEN "cancel_seen" ELSE "select"

\* Where the spawned thread is after `Builder::..build().unwrap()`: at the
\* select!, or ended by the panic when the runtime could not be built.
WorkerEntry(built) == IF built THEN SelectEntry ELSE "panicked"

\* The worker thread has ended: it left its loop or it panicked.
Ended(pc) == pc \in {"finished", "panicked"}

\* An is_alive that told whether the worker is still running.
IsAliveWhileRunning == handle = "some" /\ ~Ended(wpc)

\* StorageServiceInner::is_alive: the handle is held and is_finished().
IsAlive == handle = "some" /\ Ended(wpc)

\* StorageServiceInner::connect: get_client()? fails with settings the client
\* rejects; otherwise the worker thread is spawned and its handle stored.
Connect ==
    IF clientOk
    THEN /\ \E built \in BOOLEAN : wpc' = WorkerEntry(built)
         /\ handle' = "some"
    ELSE UNCHANGED <<wpc, handle>>

\* select!: the poll interval elapsed; the drain of this tick starts.
WorkerPollTick ==
    /\ ~exited
    /\ wpc = "select"
    /\ wpc' = "drain"
    /\ tickLog' = <<>>
    /\ UNCHANGED <<parseVars, loopVars, clientOk, upload_queue, handle, cancelled, innerLocked,
                   inflight, sdpc, sdResult, enqueued, uploaded, everFailed,
                   stored, enqAtPop>>

\* A worker that drains the queue once more when it is cancelled.
AfterCancelDrains == "drain"

\* Where the worker goes from the cancellation branch: `break` leaves the
\* loop, block_on returns and the thread ends.
AfterCancel == "finished"

\* select!: the token is cancelled; the loop breaks and the thread ends.
WorkerCancelled ==
    /\ ~exited
    /\ wpc \in {"select", "cancel_seen"}
    /\ cancelled
    /\ wpc' = AfterCancel
    /\ UNCHANGED <<parseVars, loopVars, clientOk, upload_queue, handle, cancelled, innerLocked,
                   inflight, sdpc, sdResult, histVars>>

\* `while let Some(upload) = { queue.lock().await.pop_front() }`
WorkerPop ==
    /\ ~exited
    /\ wpc = "drain"
    /\ IF upload_queue = <<>>
       THEN /\ wpc' = SelectEntry
            /\ UNCHANGED <<upload_queue, inflight, enqAtPop>>
       ELSE /\ inflight' = <<PopFront(upload_queue).task>>
            /\ upload_queue' = PopFront(upload_queue).rest
            /\ enqAtPop' = Len(enqueued)
            /\ wpc' = "upload"
    /\ UNCHANGED <<parseVars, loopVars, clientOk, handle, cancelled, innerLocked, sdpc, sdResult,
                   enqueued, uploaded, everFailed, tickLog, stored>>

\* A worker that forgets the task whose upload failed.
RequeueDrops(queue, task) == queue

\* A worker that puts the task whose upload failed back at the head.
RequeueAtHead(queue, task) == <<task>> \o queue

\* What the worker does with the task whose upload failed.
Requeue(queue, task) == PushBack(queue, task)

\* A worker that goes on draining after a failed attempt.
AfterFailureContinues == "drain"

\* Where the worker goes after a failed attempt: `break` leaves the drain.
AfterFailure == SelectEntry

\* One attempt of the current tick, as logged.
Attempt(task, ok, before, after) ==
    [seq |-> task.seq, ok |-> ok, before |-> before, after |-> after]

\* What `gzip <file>` can do: compress the file, exit with a failure status,
\* or not start at all.
GzipOutcomes == {"compressed", "exit_failure", "spawn_error"}

\* gzip_file: Err only when the command cannot be run (`output()?`); a
\* failure status is logged and Ok returned.
GzipFile(outcome) == IF outcome = "spawn_error" THEN "Err" ELSE "Ok"

\* A do_upload that passed the compression's error on to its caller.
DoUploadGzipFails(stored_ok, outcome) ==
    IF stored_ok THEN GzipFile(outcome) ELSE "Err"

\* do_upload: Err when upload_object fails; when it succeeds gzip_file is
\* called and Ok returned in both arms of its result.
DoUpload(stored_ok, outcome) ==
    IF stored_ok
    THEN IF GzipFile(outcome) = "Ok" THEN "Ok" ELSE "Ok"
    ELSE "Err"

\* What do_upload adds to the record of stored objects.
Stored(task, stored_ok, outcome) ==
    IF stored_ok THEN Append(stored, [seq |-> task.seq, gzip |-> outcome])
    ELSE stored

\* do_upload returned Ok: upload_object succeeded; gzip_file's failure is
\* logged only.  The drain goes on with the next task.
WorkerUploadOk ==
    /\ ~exited
    /\ wpc = "upload"
    /\ \E outcome \in GzipOutcomes :
        /\ DoUpload(TRUE, outcome) = "Ok"
        /\ stored' = Stored(inflight[1], TRUE, outcome)
    /\ wpc' = "drain"
    /\ inflight' = <<>>
    /\ uploaded' = Append(uploaded, inflight[1].seq)
    /\ tickLog' = Append(tickLog,
                         Attempt(inflight[1], TRUE, upload_queue, upload_queue))
    /\ UNCHANGED <<parseVars, loopVars, clientOk, upload_queue, handle, cancelled, innerLocked,
                   sdpc, sdResult, enqueued, everFailed, enqAtPop>>

\* do_upload returned Err: the task goes back into the queue and the drain of
\* this tick ends.
WorkerUploadErr ==
    /\ ~exited
    /\ wpc = "upload"
    /\ \E stored_ok \in BOOLEAN, outcome \in GzipOutcomes :
        /\ DoUpload(stored_ok, outcome) = "Err"
        /\ stored' = Stored(inflight[1], stored_ok, outcome)
    /\ upload_queue' = Requeue(upload_queue, inflight[1])
    /\ inflight' = <<>>
    /\ wpc' = AfterFailure
    /\ everFailed' = everFailed \cup {inflight[1].seq}
    /\ tickLog' = Append(tickLog,
                         Attempt(inflight[1], FALSE, upload_queue,
                                 upload_queue'))
    /\ UNCHANGED <<parseVars, loopVars, clientOk, handle, cancelled, innerLocked, sdpc, sdResult,
                   enqueued, uploaded, enqAtPop>>

\* A shutdown that drops the handle without joining the thread.
JoinDetaches == FALSE

\* Whether shutdown_and_wait waits for the worker thread: thread.join().
JoinWaits == TRUE

\* StorageService::shutdown, first half: the `inner` mutex is taken;
\* get_client()? returns early with settings the client rejects; otherwise the
\* token is cancelled and the handle taken.
ShutdownBegin ==
    /\ ~exited
    /\ mpc # "run"
    /\ sdpc = "idle"
    /\ ~innerLocked
    /\ IF ~clientOk
       THEN /\ sdpc' = "returned"
            /\ sdResult' = "Err"
            /\ UNCHANGED <<cancelled, handle, innerLocked>>
       ELSE /\ cancelled' = TRUE
            /\ handle' = "none"
            /\ IF handle = "some"
               THEN /\ sdpc' = "joining"
                    /\ innerLocked' = TRUE
                    /\ UNCHANGED sdResult
               ELSE /\ sdpc' = "returned"
                    /\ sdResult' = "Ok"
                    /\ UNCHANGED innerLocked
    /\ UNCHANGED <<parseVars, loopVars, clientOk, upload_queue, wpc, inflight, histVars>>

\* thread.join().map_err(..)?: Err when the worker thread panicked.
JoinResult(pc) == IF pc = "panicked" THEN "Err" ELSE "Ok"

\* StorageService::shutdown, second half: thread.join() returns once the
\* worker thread has ended; the `inner` mutex is released.
ShutdownJoin ==
    /\ ~exited
    /\ sdpc = "joining"
    /\ JoinWaits => Ended(wpc)
    /\ sdpc' = "returned"
    /\ sdResult' = JoinResult(wpc)
    /\ innerLocked' = FALSE
    /\ UNCHANGED <<parseVars, loopVars, clientOk, upload_queue, handle, cancelled, wpc, inflight,
                   histVars>>

(***************************************************************************)
(* The storage service driven by a client that calls run() once, then      *)
(* queue_upload up to MaxTasks times and shutdown().                       *)
(***************************************************************************)
\* The k-th task a client enqueues.
ClientTask(k) == UploadArgs("bucket", <<"data", k>>, <<"node", k>>)

InitQueue ==
    /\ build = "release"
    /\ line = <<>>
    /\ pres = NotParsed
    /\ fres = NotParsed
    /\ clientOk \in BOOLEAN
    /\ QueueInit
    /\ LoopIdle

\* StorageService::run
Run ==
    /\ wpc = "unspawned"
    /\ handle = "none"
    /\ sdpc = "idle"
    /\ Connect
    /\ UNCHANGED <<parseVars, loopVars, clientOk, upload_queue, cancelled, innerLocked, inflight,
                   sdpc, sdResult, histVars>>

\* StorageService::queue_upload(task)
Produce ==
    /\ Len(enqueued) < MaxTasks
    /\ QueueUpload(ClientTask(Len(enqueued) + 1))
    /\ UNCHANGED <<parseVars, loopVars, clientOk, handle, cancelled, innerLocked, wpc, inflight,
                   sdpc, sdResult, uploaded, everFailed, tickLog, stored, enqAtPop>>

NextQueue ==
    \/ Run
    \/ Produce
    \/ WorkerPollTick
    \/ WorkerCancelled
    \/ WorkerPop
    \/ WorkerUploadOk
    \/ WorkerUploadErr
    \/ ShutdownBegin
    \/ ShutdownJoin

SpecQueue == InitQueue /\ [][NextQueue]_vars

\* The worker thread runs: the sleep of 5 s elapses, the pop returns, and an
\* attempt ends, with Ok or with Err.  Nothing is assumed of which it is,
\* nor of the clients.
WorkerFair ==
    /\ WF_vars(WorkerPollTick)
    /\ WF_vars(WorkerPop)
    /\ WF_vars(WorkerUploadOk \/ WorkerUploadErr)

SpecQueueFair == SpecQueue /\ WorkerFair

----------------------------------------------------------------------------
(***************************************************************************)
(* The decoder applied to one line.                                        *)
(***************************************************************************)
InitParse ==
    /\ build \in Builds
    /\ line \in ParseInputs
    /\ pres = NotParsed
    /\ fres = NotParsed
    /\ clientOk = TRUE
    /\ QueueInit
    /\ LoopIdle

\* DataPoint::parse(&line)
ParseDataPoint ==
    /\ pres = NotParsed
    /\ pres' = DataPointParse(line, build)
    /\ UNCHANGED <<build, line, fres, queueVars, histVars, loopVars>>

\* Frame::parse(&line)
ParseFrame ==
    /\ fres = NotParsed
    /\ fres' = FrameParse(line, build)
    /\ UNCHANGED <<build, line, pres, queueVars, histVars, loopVars>>

NextParse == ParseDataPoint \/ ParseFrame

SpecParse == InitParse /\ [][NextParse]_vars

----------------------------------------------------------------------------
(***************************************************************************)
(* The capture file writer (capture/file.rs).  A file is the sequence of   *)
(* the chunks written to it, each chunk the text of one write_all.         *)
(***************************************************************************)
METADATA_START == <<"## BEGIN METADATA ##", "\n">>

METADATA_END == <<"## END METADATA ##", "\n">>

\* The orders in which a HashMap may iterate over its keys.
Orders(S) ==
    {s \in [1..Cardinality(S) -> S] :
        \A i, j \in 1..Cardinality(S) : i # j => s[i] # s[j]}

\* `for (key, value) in &self.extras`: one line for each key, in the map's
\* iteration order.
RECURSIVE ExtrasLines(_, _)
ExtrasLines(extras, order) ==
    IF order = <<>> THEN <<>>
    ELSE (IF Head(order) \in DOMAIN extras
          THEN <<"#", " ", Head(order), "\t\t">> \o extras[Head(order)]
               \o <<"\n">>
          ELSE <<>>)
         \o ExtrasLines(extras, Tail(order))

\* CaptureFileMetadata::to_string
MetadataToString(m, order) ==
    METADATA_START
    \o <<"#", " ", "CAPTURE_ID", "\t\t">> \o m.capture_id \o <<"\n">>
    \o <<"#", " ", "SAMPLE_RATE", "\t\t">> \o m.sample_rate \o <<"\n">>
    \o ExtrasLines(m.extras, order)
    \o METADATA_END

\* created.to_rfc3339(): the time at the clock's resolution.
Rfc3339(t) ==
    Numeral(t \div TicksPerSecond) \o <<".">> \o Numeral(t % TicksPerSecond)

\* created.format("%Y%m%d_%H%M%S"): the time cut to the whole second.
FormatSeconds(t) == Numeral(t \div TicksPerSecond)

\* metadata.capture_id.to_string()[..8]
Prefix8(text) == SubSeq(text, 1, 8)

\* format!("{}_{}_{}.csv", node_id, created.format(..), capture_id[..8])
Filename(node_id, created, capture_id) ==
    node_id \o <<"_">> \o FormatSeconds(created) \o <<"_">>
    \o Prefix8(capture_id) \o <<".csv">>

\* metadata.get("NODE_ID").unwrap_or("UNKNOWN")
NodeIdOf(m) ==
    IF "NODE_ID" \in DOMAIN m.extras THEN m.extras["NODE_ID"]
    ELSE <<"UNKNOWN">>

\* The metadata as CaptureFileWriter::new stamps it.
Stamped(m, created) ==
    MetadataSet(MetadataSet(m, "CREATED", Rfc3339(created)),
                "VERSION", Numeral(3))

\* CaptureFileWriter::new: the writer built at time `created`.
NewWriter(dir, m, created) ==
    [dir |-> dir, created |-> created, metadata |-> Stamped(m, created),
     filename |-> Filename(NodeIdOf(Stamped(m, created)), created,
                           m.capture_id),
     lines_written |-> 0]

\* File::create(path): the file is made, or emptied when it exists.
FileCreate(fs, name) ==
    [n \in (DOMAIN fs) \cup {name} |-> IF n = name THEN <<>> ELSE fs[n]]

\* file.write_all(bytes) on the writer's file.
WriteAll(fs, w, bytes) == [fs EXCEPT ![w.filename] = Append(@, bytes)]

\* CaptureFileWriter::init, on the pair of the directory and the writer.
InitFile(st) ==
    [st EXCEPT !.files = WriteAll(st.files, st.writer,
                                  MetadataToString(st.writer.metadata,
                                                   extrasOrder))]

\* since_the_epoch.as_secs_f64().to_string()
EpochSecs == <<"<secs_f64>">>

\* The line as write_line completes it.
CompleteLine(text) == EpochSecs \o <<",">> \o text

\* CaptureFileWriter::write_line
WriteLine(st, text) ==
    [files  |-> WriteAll(st.files, st.writer, CompleteLine(text)),
     writer |-> [st.writer EXCEPT !.lines_written = @ + 1],
     wrote  |-> Append(st.wrote, CompleteLine(text))]

\* format!("# {}\n", comment)
CommentLine(comment) == <<"#", " ">> \o comment \o <<"\n">>

\* A comment written to the file without being counted as a line.
CommentUncounted(st, comment) ==
    [files  |-> WriteAll(st.files, st.writer,
                         CompleteLine(CommentLine(comment))),
     writer |-> st.writer,
     wrote  |-> Append(st.wrote, CompleteLine(CommentLine(comment)))]

\* CaptureFileWriter::comment
Comment(st, comment) == WriteLine(st, CommentLine(comment))

\* CaptureFileWriter::file_path: dir.join(filename)
FilePath(w) == w.dir \o <<"/">> \o w.filename

----------------------------------------------------------------------------
(***************************************************************************)
(* main (main.rs): the acquisition loop and the signal handler.  main.rs   *)
(* calls run(), queue_upload() and shutdown() of the storage service as    *)
(* plain calls; each is taken as the service's async fn driven to its end  *)
(* at the call site.                                                       *)
(***************************************************************************)
\* DurationRound::duration_round(span): the nearest multiple of span, a tie
\* going up.
DurationRound(t, span) ==
    LET delta_down == t % span
        delta_up   == span - delta_down
    IN  IF delta_down = 0 THEN t
        ELSE IF delta_up <= delta_down THEN t + delta_up
        ELSE t - delta_down

\* TimeDelta::num_seconds
NumSeconds(d) == d \div TicksPerSecond

\* A rotation check without the guard on the time since the last rotation.
RotationDueUnguarded(tick, last) ==
    DurationRound(tick, IntervalTicks) = DurationRound(tick, TicksPerSecond)

\* The rotation check at the top of the loop.
RotationDue(tick, last) ==
    /\ DurationRound(tick, IntervalTicks) = DurationRound(tick, TicksPerSecond)
    /\ NumSeconds(tick - last) > RotateInterval

\* A rotation that names the object by the filename alone.
ObjectPathNoNode(node_id, filename) == filename

\* Path::new(format!("{}/", node_id)).join(writer.filename())
ObjectPath(node_id, filename) == node_id \o <<"/">> \o filename

\* The task a rotation enqueues for the writer in use.
RotationTask(w) ==
    UploadArgs(Bucket, FilePath(w), ObjectPath(NodeId, w.filename))

\* Lines the serial port delivers, each as read_line returns it.
Newline(l) == l \o <<"\n">>

GoodLine == Newline(DataLine(GoodHeader(2) \o ExampleBody))

NoTimestampLine == Newline(DataLine(Header(<<"x">>, <<"G">>, 2) \o ExampleBody))

BadChecksumLine ==
    Newline(DataLine(GoodHeader(2)
                     \o <<Numeral(600), Numeral(424), Numeral(1025)>>))

\* The line cut before its checksum: the last token is the newline alone.
CutLine ==
    Newline(DataLine(GoodHeader(2) \o <<Numeral(600), Numeral(424), <<>>>>))

CommentInput == <<"#", "o", "k", "\n">>

OtherInput == <<"o", "k", "\n">>

LoopLines ==
    {GoodLine, NoTimestampLine, BadChecksumLine, CutLine, CommentInput,
     OtherInput, <<>>}

\* What one iteration's read gave and what handling it did.
ReadOutcome(kind, err, wrote, gave) ==
    [kind |-> kind, err |-> err, wrote |-> wrote, pushed |-> gave]

\* main() up to `storage_service.run()`, for the device `lines` and the
\* clock running until `last`.
InitMain(lines, last) ==
    /\ line = <<>>
    /\ pres = NotParsed
    /\ fres = NotParsed
    /\ QueueInit
    /\ now = StartTime
    /\ mpc = "run"
    /\ exited = FALSE
    /\ shutdown = FALSE
    /\ tick_start = 0
    /\ last_rotate = 0
    /\ metadata = MetadataSet(MetadataNew(CaptureId, Numeral(20000)),
                              "NODE_ID", NodeId)
    /\ extrasOrder = <<"NODE_ID", "CREATED", "VERSION">>
    /\ port = lines
    /\ deadline = last
    /\ writer = <<>>
    /\ files = <<>>
    /\ lastRead = NoRead
    /\ pushed = 0
    /\ iters = 0
    /\ reading = 0
    /\ queuedReads = 0
    /\ lateReads = 0
    /\ opened = <<>>
    /\ rotations = 0
    /\ calls = <<>>

\* The clock advances.  Time is read by the rotation check and by
\* CaptureFileWriter::new only, so it is let pass just before them and
\* between the calls of a client of the writer; the startup writer of main
\* is made at the start time.
Tick ==
    /\ ~exited
    /\ mpc \in {"client", "top", "rot_new"}
    /\ now < deadline
    /\ now' = now + 1
    /\ UNCHANGED <<portVars, parseVars, queueVars, histVars, mpc, exited, shutdown,
                   tick_start, last_rotate, metadata, extrasOrder, port, deadline, calls, writer,
                   files, lastRead, pushed, iters, opened, rotations>>

\* storage_service.run(): an error is logged and main goes on.
MainRun ==
    /\ ~exited
    /\ mpc = "run"
    /\ Connect
    /\ mpc' = "open"
    /\ UNCHANGED <<portVars, parseVars, clientOk, upload_queue, cancelled, innerLocked,
                   inflight, sdpc, sdResult, histVars, now, exited, shutdown,
                   tick_start, last_rotate, metadata, extrasOrder, port, deadline, calls, writer,
                   files, lastRead, pushed, iters, opened, rotations>>

\* `CaptureFileWriter::new(data_dir, &mut metadata)?` and `writer.init()`:
\* with created the file is made and the preamble written; an I/O error
\* makes main return it.
OpenWriter(created, next) ==
    LET w == NewWriter(DataDir, metadata, now)
    IN  /\ metadata' = w.metadata
        /\ IF created
           THEN /\ writer' = <<w>>
                /\ files' = InitFile([files  |-> FileCreate(files, w.filename),
                                      writer |-> w]).files
                /\ opened' = Append(opened, w.filename)
                /\ mpc' = next
                /\ UNCHANGED exited
           ELSE /\ mpc' = "failed"
                /\ exited' = TRUE
                /\ UNCHANGED <<writer, files, opened>>

\* The writer opened at startup; last_rotate is the epoch.
MainOpen ==
    /\ ~exited
    /\ mpc = "open"
    /\ \E created \in BOOLEAN : OpenWriter(created, "top")
    /\ last_rotate' = 0
    /\ UNCHANGED <<portVars, parseVars, queueVars, histVars, now, shutdown, tick_start,
                   extrasOrder, port, deadline, calls, lastRead, pushed, iters, rotations>>

\* A loop that never looks at the flag.
LoopConditionBlind(flag) == TRUE

\* The loop's condition: !shutdown.load(Ordering::Relaxed)
LoopCondition(flag) == ~flag

\* `while !shutdown.load(..)`, `tick_start = Utc::now()` and the rotation
\* check.
MainTop ==
    /\ ~exited
    /\ mpc = "top"
    /\ IF ~LoopCondition(shutdown)
       THEN /\ mpc' = "done"
            /\ exited' = TRUE
            /\ UNCHANGED <<tick_start, last_rotate, iters, rotations, line,
                           pres, lastRead>>
       ELSE /\ iters < MaxIters
            /\ iters' = iters + 1
            /\ tick_start' = now
            /\ line' = <<>>
            /\ pres' = NotParsed
            /\ lastRead' = NoRead
            /\ UNCHANGED exited
            /\ IF RotationDue(now, last_rotate)
               THEN /\ last_rotate' = now
                    /\ rotations' = rotations + 1
                    /\ mpc' = "rot_queue"
               ELSE /\ mpc' = "read"
                    /\ UNCHANGED <<last_rotate, rotations>>
    /\ UNCHANGED <<portVars, build, fres, queueVars, histVars, now, shutdown, metadata,
                   extrasOrder, port, deadline, calls, writer, files, pushed, opened>>

\* Rotation: storage_service.queue_upload(UploadArgs::new(..)) for the writer
\* in use.
RotQueue ==
    /\ ~exited
    /\ mpc = "rot_queue"
    /\ QueueUpload(RotationTask(writer[1]))
    /\ mpc' = "rot_drop"
    /\ UNCHANGED <<portVars, parseVars, clientOk, handle, cancelled, innerLocked, wpc,
                   inflight, sdpc, sdResult, uploaded, everFailed, tickLog, stored,
                   enqAtPop,
                   now, exited, shutdown, tick_start, last_rotate, metadata,
                   extrasOrder, port, deadline, calls, writer, files, lastRead, pushed, iters,
                   opened, rotations>>

\* Rotation: drop(writer)
RotDrop ==
    /\ ~exited
    /\ mpc = "rot_drop"
    /\ writer' = <<>>
    /\ mpc' = "rot_new"
    /\ UNCHANGED <<portVars, parseVars, queueVars, histVars, now, exited, shutdown,
                   tick_start, last_rotate, metadata, extrasOrder, port, deadline, calls, files,
                   lastRead, pushed, iters, opened, rotations>>

\* Rotation: the new writer.
RotNew ==
    /\ ~exited
    /\ mpc = "rot_new"
    /\ \E created \in BOOLEAN : OpenWriter(created, "read")
    /\ UNCHANGED <<portVars, parseVars, queueVars, histVars, now, shutdown, tick_start,
                   last_rotate, extrasOrder, port, deadline, calls, lastRead, pushed, iters,
                   rotations>>

\* A loop that noted a failed read in the capture file.
HandleReadFailureNotes(st) == Comment(st, <<"! Failed to read">>)

\* The arms of a failed read: the LED turns red, the error is logged and the
\* loop continues; the directory and the writer `st` are left as they are.
HandleReadFailure(st) == st

\* A port whose readers do not exclude each other.
CanLockShared(holders) == TRUE

\* serial_port.lock(): the std Mutex of the port is free.
CanLock(holders) == holders = 0

\* The blocking task of a read whose timeout won.  tokio::time::timeout drops
\* the JoinHandle, which leaves the task running: it is in read_line with
\* the port's mutex, or it waits for the mutex that an earlier task holds.
Abandon ==
    IF CanLock(reading)
    THEN reading' = reading + 1 /\ UNCHANGED queuedReads
    ELSE queuedReads' = queuedReads + 1 /\ UNCHANGED reading

\* The read ended without a line: the timeout won ("timeout"), read_line
\* returned an error ("io_error": BrokenPipe or another kind), or the
\* blocking task could not be joined ("join_error").  Each is logged and the
\* loop continues.  An error of read_line comes from a task that had the
\* port's mutex and has released it.
ReadFails ==
    /\ ~exited
    /\ mpc = "read"
    /\ LET s == HandleReadFailure([files |-> files, writer |-> writer[1],
                                   wrote |-> <<>>])
       IN  /\ files' = s.files
           /\ writer' = <<s.writer>>
           /\ \E outcome \in {<<"timeout", "">>, <<"io_error", "BrokenPipe">>,
                               <<"io_error", "Other">>, <<"join_error", "">>} :
                /\ lastRead' = ReadOutcome(outcome[1], outcome[2], s.wrote, FALSE)
                /\ IF outcome[1] = "timeout" THEN Abandon
                   ELSE /\ outcome[1] = "io_error" => CanLock(reading)
                        /\ UNCHANGED <<reading, queuedReads>>
    /\ UNCHANGED lateReads
    /\ mpc' = "top"
    /\ line' = <<>>
    /\ pres' = NotParsed
    /\ UNCHANGED <<build, fres, queueVars, histVars, now, exited, shutdown,
                   tick_start, last_rotate, metadata, extrasOrder, port, deadline, calls,
                   pushed, iters, opened, rotations>>

\* The writes of the loop for a line, from the directory and writer `st`.
\* A comment line is written as a comment.
HandleComment(st, l) == Comment(st, l)

\* A line that did not parse: the line as it is, then the error comment.
HandleParseError(st, l) ==
    Comment(WriteLine(st, l),
            <<"! Failed to parse data point">>)

\* The computer's time: tick_start.timestamp_millis() as f64 / 1000.0
ComputerTime(t) == Rfc3339(t)

\* A frame: two comments when it has no timestamp, then the line without its
\* marker.
HandleFrame(st, l, frame, tick) ==
    LET noted ==
            IF ~frame.timestamp.some
            THEN Comment(Comment(st,
                     <<"ERR Missing timestamp, including computer timestamp on next line">>),
                     ComputerTime(tick))
            ELSE st
    IN  WriteLine(noted, SkipFirst(l))

\* A classification that takes every line without the comment marker for
\* data.
ClassifyUnmarkedAsData(l) == IF StartsWith(l, "#") THEN "comment" ELSE "data"

\* The two tests on the line read: line.starts_with("#"), then
\* !line.starts_with("$").
Classify(l) ==
    IF StartsWith(l, "#") THEN "comment"
    ELSE IF ~StartsWith(l, "$") THEN "other"
    ELSE "data"

\* An abandoned task that waited for the port's mutex takes it and calls
\* read_line.
AbandonedLock ==
    /\ ~exited
    /\ queuedReads > 0
    /\ CanLock(reading)
    /\ queuedReads' = queuedReads - 1
    /\ reading' = reading + 1
    /\ UNCHANGED <<parseVars, queueVars, histVars, now, mpc, exited, shutdown,
                   tick_start, last_rotate, metadata, extrasOrder, port,
                   deadline, calls, writer, files, lastRead, pushed, iters,
                   opened, rotations, lateReads>>

\* A loop that took the line of an abandoned read for its own.
LateResultHandled(cur, l) == [line |-> l, pres |-> DataPointParse(l, "release")]

\* What becomes of the line an abandoned task returns: its JoinHandle was
\* dropped with the timeout's future, so the result is dropped with the
\* task; `cur` is the line the loop has and its decoding.
LateResult(cur, l) == cur

\* read_line returns in an abandoned task, with a line of the device or with
\* an error (the port's own timeout among them); the mutex is released.
AbandonedReturn ==
    /\ ~exited
    /\ reading > 0
    /\ reading' = reading - 1
    /\ \/ /\ \E l \in port :
                LET r == LateResult([line |-> line, pres |-> pres], l)
                IN  line' = r.line /\ pres' = r.pres
          /\ lateReads' = lateReads + 1
       \/ UNCHANGED <<line, pres, lateReads>>
    /\ UNCHANGED <<build, fres, queueVars, histVars, now, mpc, exited, shutdown,
                   tick_start, last_rotate, metadata, extrasOrder, port,
                   deadline, calls, writer, files, lastRead, pushed, iters,
                   opened, rotations, queuedReads>>

\* The read gave a line, which is classified, parsed and written.  The line
\* comes from the iteration's task, which had the port's mutex.
ReadLine ==
    /\ ~exited
    /\ mpc = "read"
    /\ CanLock(reading)
    /\ \E l \in port :
        LET st == [files |-> files, writer |-> writer[1], wrote |-> <<>>]
            r  == DataPointParse(l, build)
            done(s, gave, res) ==
                /\ files' = s.files
                /\ writer' = <<s.writer>>
                /\ lastRead' = ReadOutcome("line", "", s.wrote, gave)
                /\ pushed' = IF gave THEN pushed + 1 ELSE pushed
                /\ pres' = res
                /\ mpc' = "top"
                /\ UNCHANGED exited
        IN  /\ line' = l
            /\ IF Classify(l) = "comment"
               THEN done(HandleComment(st, l), FALSE, NotParsed)
               ELSE IF Classify(l) = "other" THEN done(st, FALSE, NotParsed)
               ELSE IF r.tag = "Err" THEN done(HandleParseError(st, l), FALSE, r)
               ELSE IF r.tag = "Ok"
               THEN done(HandleFrame(st, l, r.frame[1], tick_start), TRUE, r)
               ELSE /\ pres' = r
                    /\ lastRead' = ReadOutcome("line", "", <<>>, FALSE)
                    /\ mpc' = "panicked"
                    /\ exited' = TRUE
                    /\ UNCHANGED <<files, writer, pushed>>
    /\ UNCHANGED <<portVars, build, fres, queueVars, histVars, now, shutdown,
                   tick_start, last_rotate, metadata, extrasOrder, port, deadline, calls, iters,
                   opened, rotations>>

\* The signal thread after storage_service.shutdown() returned, with Ok or
\* Err: web_service.shutdown(), then shutdown.store(true).
SigStoreFlag ==
    /\ ~exited
    /\ sdpc = "returned"
    /\ sdpc' = "stored"
    /\ shutdown' = TRUE
    /\ UNCHANGED <<portVars, parseVars, clientOk, upload_queue, handle, cancelled,
                   innerLocked, wpc, inflight, sdResult, histVars, now, mpc,
                   exited, tick_start, last_rotate, metadata, extrasOrder, port, deadline, calls,
                   writer, files, lastRead, pushed, iters, opened, rotations>>

\* The signal thread: std::process::exit(0)
SigExit ==
    /\ ~exited
    /\ sdpc = "stored"
    /\ sdpc' = "exit"
    /\ exited' = TRUE
    /\ UNCHANGED <<portVars, parseVars, clientOk, upload_queue, handle, cancelled,
                   innerLocked, wpc, inflight, sdResult, histVars, now, mpc,
                   shutdown, tick_start, last_rotate, metadata, extrasOrder, port, deadline, calls,
                   writer, files, lastRead, pushed, iters, opened, rotations>>

(***************************************************************************)
(* The acquisition loop by itself: every line of the device, the clock     *)
(* running over HorizonIntervals intervals, no signal, and the upload      *)
(* worker at rest.                                                         *)
(***************************************************************************)
InitLoop ==
    /\ build = "release"
    /\ clientOk = TRUE
    /\ InitMain(LoopLines, MaxTime)

NextLoop ==
    \/ Tick
    \/ MainRun
    \/ MainOpen
    \/ MainTop
    \/ RotQueue
    \/ RotDrop
    \/ RotNew
    \/ ReadFails
    \/ ReadLine
    \/ AbandonedLock
    \/ AbandonedReturn

SpecLoop == InitLoop /\ [][NextLoop]_vars

(***************************************************************************)
(* The whole program: the loop, the upload worker and the signal handler,  *)
(* around one interval boundary, with a device that sends a good line or a *)
(* line cut before its checksum.                                           *)
(***************************************************************************)
Init ==
    /\ build = "release"
    /\ clientOk \in BOOLEAN
    /\ InitMain({GoodLine, CutLine}, StartTime + 1)

Next ==
    \/ Tick
    \/ MainRun
    \/ MainOpen
    \/ MainTop
    \/ RotQueue
    \/ RotDrop
    \/ RotNew
    \/ ReadFails
    \/ ReadLine
    \/ AbandonedLock
    \/ AbandonedReturn
    \/ SigStoreFlag
    \/ SigExit
    \/ WorkerPollTick
    \/ WorkerCancelled
    \/ WorkerPop
    \/ WorkerUploadOk
    \/ WorkerUploadErr
    \/ ShutdownBegin
    \/ ShutdownJoin

Spec == Init /\ [][Next]_vars

\* The main thread runs: each of its steps returns, the read within its
\* timeout of 2000 ms.  Nothing is assumed of the signal thread or of the
\* upload worker.
LoopFair ==
    /\ WF_vars(MainRun)
    /\ WF_vars(MainOpen)
    /\ WF_vars(MainTop)
    /\ WF_vars(RotQueue)
    /\ WF_vars(RotDrop)
    /\ WF_vars(RotNew)
    /\ WF_vars(ReadFails \/ ReadLine)

SpecFair == Spec /\ LoopFair

----------------------------------------------------------------------------
(***************************************************************************)
(* The capture file writer driven by a client that calls, in any order,    *)
(* metadata.set, CaptureFileWriter::new, init, write_line, comment and the *)
(* accessors, up to MaxCalls calls, while the clock runs over a second.    *)
(***************************************************************************)
\* The metadata.set calls of the client: (key, value).
ClientSets ==
    {<<"NODE_ID", NodeId>>, <<"NODE_ID", <<"n", "8">>>>, <<"CREATED", <<"x">>>>}

\* The texts the client passes to write_line and to comment.
ClientLine == <<"4", "2", "\n">>

ClientComment == <<"n", "o", "t", "e">>

\* One call, as logged: the operation, the key of a set, the text passed or
\* the result returned.
Call(op, key, text) == [op |-> op, key |-> key, text |-> text]

InitWriter ==
    /\ build = "release"
    /\ line = <<>>
    /\ pres = NotParsed
    /\ fres = NotParsed
    /\ clientOk = TRUE
    /\ QueueInit
    /\ now = StartTime
    /\ mpc = "client"
    /\ exited = FALSE
    /\ shutdown = FALSE
    /\ tick_start = 0
    /\ last_rotate = 0
    /\ metadata = MetadataNew(CaptureId, Numeral(20000))
    /\ extrasOrder \in Orders(ExtrasKeys)
    /\ port = {}
    /\ deadline = StartTime + TicksPerSecond
    /\ writer = <<>>
    /\ files = <<>>
    /\ lastRead = NoRead
    /\ pushed = 0
    /\ iters = 0
    /\ reading = 0
    /\ queuedReads = 0
    /\ lateReads = 0
    /\ opened = <<>>
    /\ rotations = 0
    /\ calls = <<>>

\* metadata.set(key, value)
WriterSet ==
    /\ Len(calls) < MaxCalls
    /\ \E kv \in ClientSets :
        /\ metadata' = MetadataSet(metadata, kv[1], kv[2])
        /\ calls' = Append(calls, Call("set", kv[1], kv[2]))
    /\ UNCHANGED <<portVars, parseVars, queueVars, histVars, now, mpc, exited, shutdown,
                   tick_start, last_rotate, extrasOrder, port, deadline,
                   writer, files, lastRead, pushed, iters, opened, rotations>>

\* CaptureFileWriter::new(dir, &mut metadata): the metadata is stamped, then
\* the file is created and the writer returned, or the I/O error is.
WriterNew ==
    /\ Len(calls) < MaxCalls
    /\ LET w == NewWriter(DataDir, metadata, now)
       IN  /\ metadata' = w.metadata
           /\ \E created \in BOOLEAN :
                IF created
                THEN /\ writer' = <<w>>
                     /\ files' = FileCreate(files, w.filename)
                     /\ opened' = Append(opened, w.filename)
                     /\ calls' = Append(calls, Call("new", "", <<"Ok">>))
                ELSE /\ calls' = Append(calls, Call("new", "", <<"Err">>))
                     /\ UNCHANGED <<writer, files, opened>>
    /\ UNCHANGED <<portVars, parseVars, queueVars, histVars, now, mpc, exited, shutdown,
                   tick_start, last_rotate, extrasOrder, port, deadline,
                   lastRead, pushed, iters, rotations>>

\* writer.init()
WriterInit ==
    /\ Len(calls) < MaxCalls
    /\ writer # <<>>
    /\ files' = InitFile([files |-> files, writer |-> writer[1]]).files
    /\ calls' = Append(calls, Call("init", "", <<>>))
    /\ UNCHANGED <<portVars, parseVars, queueVars, histVars, now, mpc, exited, shutdown,
                   tick_start, last_rotate, metadata, extrasOrder, port,
                   deadline, writer, lastRead, pushed, iters, opened,
                   rotations>>

\* writer.write_line(text)
WriterWriteLine ==
    /\ Len(calls) < MaxCalls
    /\ writer # <<>>
    /\ LET st == WriteLine([files |-> files, writer |-> writer[1],
                            wrote |-> <<>>], ClientLine)
       IN  /\ files' = st.files
           /\ writer' = <<st.writer>>
    /\ calls' = Append(calls, Call("write_line", "", ClientLine))
    /\ UNCHANGED <<portVars, parseVars, queueVars, histVars, now, mpc, exited, shutdown,
                   tick_start, last_rotate, metadata, extrasOrder, port,
                   deadline, lastRead, pushed, iters, opened, rotations>>

\* writer.comment(text)
WriterComment ==
    /\ Len(calls) < MaxCalls
    /\ writer # <<>>
    /\ LET st == Comment([files |-> files, writer |-> writer[1],
                          wrote |-> <<>>], ClientComment)
       IN  /\ files' = st.files
           /\ writer' = <<st.writer>>
    /\ calls' = Append(calls, Call("comment", "", ClientComment))
    /\ UNCHANGED <<portVars, parseVars, queueVars, histVars, now, mpc, exited, shutdown,
                   tick_start, last_rotate, metadata, extrasOrder, port,
                   deadline, lastRead, pushed, iters, opened, rotations>>

\* The accessors file_path(), filename(), created() and lines_written():
\* each returns a value and changes nothing.
WriterRead ==
    /\ Len(calls) < MaxCalls
    /\ writer # <<>>
    /\ calls' = Append(calls, Call("read", "", FilePath(writer[1])))
    /\ UNCHANGED <<portVars, parseVars, queueVars, histVars, now, mpc, exited, shutdown,
                   tick_start, last_rotate, metadata, extrasOrder, port,
                   deadline, writer, files, lastRead, pushed, iters, opened,
                   rotations>>

NextWriter ==
    \/ Tick
    \/ WriterSet
    \/ WriterNew
    \/ WriterInit
    \/ WriterWriteLine
    \/ WriterComment
    \/ WriterRead

SpecWriter == InitWriter /\ [][NextWriter]_vars

----------------------------------------------------------------------------
(***************************************************************************)
(* Properties of the decoder.                                              *)
(***************************************************************************)
\* The tokens DataPoint::parse sees in a line.
TokensOf(l) == SplitComma(IF StartsWith(l, "$") THEN SkipFirst(l) ELSE l)

\* The header parses and the declared number of integer samples is followed
\* by a checksum token.
HasSampleBlock(tokens) ==
    /\ FirstBadField(tokens) = 0
    /\ LET n == ParseU16(tokens[10]).v
       IN  /\ Len(tokens) >= 10 + n + 1
           /\ \A k \in 11..(10 + n) : ParseI64(tokens[k]).some

\* The sum of the raw samples, as integers.
SampleSum(tokens) ==
    LET n == ParseU16(tokens[10]).v
    IN  SumOf([i \in 1..n |-> ParseI64(tokens[10 + i]).v])

ChecksumToken(tokens) == tokens[10 + ParseU16(tokens[10]).v + 1]

StripNewline(tok) ==
    IF tok # <<>> /\ tok[Len(tok)] = "\n" THEN SubSeq(tok, 1, Len(tok) - 1)
    ELSE tok

\* The token is the decimal numeral of n (the line's newline apart).
Declares(tok, n) == StripZeros(StripNewline(tok)) = Numeral(n)

\* C1: DataPoint::parse returns a frame only when the declared checksum equals
\* the sum of the N raw sample integers, and returns the checksum error, with
\* no frame, for every line whose checksum token differs from that sum.
C1_ChecksumGuardsFrame ==
    pres # NotParsed =>
        LET tokens == TokensOf(line)
        IN  /\ pres.tag = "Ok" =>
                /\ HasSampleBlock(tokens)
                /\ Declares(ChecksumToken(tokens), SampleSum(tokens))
            /\ (/\ HasSampleBlock(tokens)
                /\ ~Declares(ChecksumToken(tokens), SampleSum(tokens)))
               => pres = Err("Checksum failed", "")

----------------------------------------------------------------------------
(***************************************************************************)
(* Properties of the upload queue.                                         *)
(***************************************************************************)
SeqNumbers(queue) == [i \in 1..Len(queue) |-> queue[i].seq]

\* C2: in one poll tick a failed upload puts the task back at the tail of the
\* queue and ends the drain: the failed attempt is the last of its tick, so
\* with tasks 1, 2, 3 queued and the second attempt failing the queue becomes
\* <<3, 2>> and task 3 waits for the next tick.
C2_FailureEndsTick ==
    \A i \in 1..Len(tickLog) :
        ~tickLog[i].ok =>
            /\ i = Len(tickLog)
            /\ wpc \notin {"drain", "upload"}
            /\ inflight = <<>>
            /\ Len(tickLog[i].after) = Len(tickLog[i].before) + 1
            /\ SubSeq(tickLog[i].after, 1, Len(tickLog[i].before))
                   = tickLog[i].before
            /\ tickLog[i].after[Len(tickLog[i].after)].seq = tickLog[i].seq

\* Tasks 1, 2, 3 were queued, task 1 was uploaded and task 2 failed in the
\* same tick, and the queue is <<3, 2>>.
C2_Witness ==
    /\ Len(tickLog) = 2
    /\ tickLog[1].seq = 1 /\ tickLog[1].ok
    /\ SeqNumbers(tickLog[1].before) = <<2, 3>>
    /\ tickLog[2].seq = 2 /\ ~tickLog[2].ok
    /\ SeqNumbers(upload_queue) = <<3, 2>>
    /\ uploaded = <<1>>

\* How often a task is in the queue or in the worker's hands.
Held(k) ==
    Cardinality({i \in 1..Len(upload_queue) : upload_queue[i].seq = k})
    + Cardinality({i \in 1..Len(inflight) : inflight[i].seq = k})

IsUploaded(k) == \E i \in 1..Len(uploaded) : uploaded[i] = k

\* C3: while the worker has not been cancelled, every task that was enqueued
\* and not yet uploaded is in the queue or is the one task the worker is
\* attempting.
C3_NoTaskDropped ==
    ~cancelled =>
        /\ Len(inflight) <= 1
        /\ \A k \in 1..Len(enqueued) : ~IsUploaded(k) => Held(k) = 1

\* A task failed and went back into the queue while another is being attempted.
C3_Witness ==
    /\ ~cancelled
    /\ inflight # <<>>
    /\ \E k \in everFailed : ~IsUploaded(k) /\ Held(k) = 1

\* C4 as claimed: of two tasks, the one enqueued first is uploaded first,
\* whatever failed.
C4_Ordered ==
    \A j \in 1..Len(uploaded) :
        \A a \in 1..(uploaded[j] - 1) :
            \E i \in 1..(j - 1) : uploaded[i] = a

\* C4, amended: of two tasks, the one enqueued first is uploaded first
\* provided no attempt to upload it has failed.
C4_OrderedUnlessFailed ==
    \A j \in 1..Len(uploaded) :
        \A a \in 1..(uploaded[j] - 1) :
            a \notin everFailed => \E i \in 1..(j - 1) : uploaded[i] = a

\* Three tasks were uploaded, one of them after a failure, and a task that
\* never failed was uploaded before one enqueued after it.
C4_Witness ==
    /\ Len(uploaded) = 3
    /\ everFailed # {}
    /\ \E i, j \in 1..3 :
         i < j /\ uploaded[i] < uploaded[j] /\ uploaded[i] \notin everFailed

----------------------------------------------------------------------------
(***************************************************************************)
(* Properties of the acquisition loop.                                     *)
(***************************************************************************)
\* C5: every capture file opened at a rotation has a filename different
\* from the filename of every capture file created earlier in the run, the
\* startup file included.
C5_DistinctFilenames ==
    \A i, j \in 1..Len(opened) : i < j => opened[i] # opened[j]

\* C6: each rotation enqueues exactly one task and nothing else enqueues:
\* the tasks enqueued are as many as the rotations (less the one a rotation
\* in progress is about to enqueue), and the i-th task carries the configured
\* bucket, the local path of the i-th capture file, which is the file the
\* i-th rotation closes, and the remote key node_id/filename of that file.
C6_OneTaskPerRotation ==
    /\ Len(enqueued) = rotations - (IF mpc = "rot_queue" THEN 1 ELSE 0)
    /\ \A i \in 1..Len(enqueued) :
        /\ i <= Len(opened)
        /\ enqueued[i].bucket_name = Bucket
        /\ enqueued[i].file_path = DataDir \o <<"/">> \o opened[i]
        /\ enqueued[i].object_path = NodeId \o <<"/">> \o opened[i]

\* Two rotations have run to their end and their two tasks name two files.
C6_Witness ==
    /\ rotations = 2
    /\ mpc = "read"
    /\ Len(enqueued) = 2
    /\ enqueued[1].file_path # enqueued[2].file_path

\* C8: once the shutdown of the storage service has begun, the loop has
\* stopped: no step enqueues a task any more.
C8_NoEnqueueAfterShutdownBegan ==
    [][sdpc # "idle" => enqueued' = enqueued]_vars

\* C9: after a read that ended in a broken pipe the loop begins no further
\* iteration.
C9_BrokenPipeIsFatal ==
    [][(lastRead.kind = "io_error" /\ lastRead.err = "BrokenPipe")
          => iters' = iters]_vars

\* Whether `text` ends `chunk`.
EndsWith(chunk, text) ==
    /\ Len(text) <= Len(chunk)
    /\ SubSeq(chunk, Len(chunk) - Len(text) + 1, Len(chunk)) = text

\* C10: a data-marked line that the decoder does not decode has the raw line
\* written, then exactly one error comment, gives no frame to the status
\* sink, and leaves the loop at the top of its next iteration.
C10_MalformedLineHandled ==
    (lastRead.kind = "line" /\ StartsWith(line, "$") /\ pres.tag # "Ok")
        => /\ mpc = "top"
           /\ ~exited
           /\ ~lastRead.pushed
           /\ Len(lastRead.wrote) = 2
           /\ EndsWith(lastRead.wrote[1], line)
           /\ EndsWith(lastRead.wrote[2],
                       CommentLine(<<"! Failed to parse data point">>))

----------------------------------------------------------------------------
(***************************************************************************)
(* Further properties of the decoder.                                      *)
(***************************************************************************)
\* C11: DataPoint::parse never panics: for every line it returns a frame or
\* an error value.
C11_ParseNeverPanics == pres # NotParsed => pres.tag \in {"Ok", "Err"}

----------------------------------------------------------------------------
(***************************************************************************)
(* Properties of the capture file writer.                                  *)
(***************************************************************************)
\* The position in the log of the call that made the writer in use: the last
\* new() that returned a writer; 0 when there is none.
LastNew ==
    LET made == {i \in 1..Len(calls) :
                    calls[i].op = "new" /\ calls[i].text = <<"Ok">>}
    IN  IF made = {} THEN 0 ELSE CHOOSE i \in made : \A j \in made : j <= i

WritesFile(c) == c.op \in {"init", "write_line", "comment"}

\* The calls on the writer in use that write to its file, oldest first.
WriterCalls == SelectSeq(SubSeq(calls, LastNew + 1, Len(calls)), WritesFile)

\* The bytes of a file: its chunks one after the other.
RECURSIVE Concat(_)
Concat(chunks) ==
    IF chunks = <<>> THEN <<>> ELSE Head(chunks) \o Concat(Tail(chunks))

\* What a call is to add to the file when write_line writes its text as it
\* is: the preamble, the text, or the comment line.
Verbatim(c) ==
    CASE c.op = "init"       -> MetadataToString(writer[1].metadata, extrasOrder)
      [] c.op = "write_line" -> c.text
      [] c.op = "comment"    -> <<"#", " ">> \o c.text \o <<"\n">>

\* C12: write_line(text) appends exactly the bytes of text: the file holds,
\* in call order, the preamble of each init and the texts passed to
\* write_line and the comment lines, and nothing else.
C12_WriteLineVerbatim ==
    writer # <<>> =>
        Concat(files[writer[1].filename])
            = Concat([i \in 1..Len(WriterCalls) |-> Verbatim(WriterCalls[i])])

\* C13: every line that comment(text) writes to the file begins with the
\* comment marker.
C13_CommentLinesMarked ==
    writer # <<>> =>
        /\ Len(files[writer[1].filename]) = Len(WriterCalls)
        /\ \A i \in 1..Len(WriterCalls) :
            WriterCalls[i].op = "comment"
                => files[writer[1].filename][i][1] = "#"

\* The token is the numeral of the integer n (the line's newline apart).
IsInteger(tok, n) ==
    LET p == ParseI64(StripNewline(tok)) IN p.some /\ p.v = n

\* The ten header tokens are well formed, the declared number of integer
\* samples follows them, and the checksum token, the last of the line, is
\* the sum of the samples.
WellFormedLine(tokens) ==
    /\ HasSampleBlock(tokens)
    /\ ParseI64(tokens[1]).some
    /\ Len(tokens) = 10 + ParseU16(tokens[10]).v + 1
    /\ IsInteger(ChecksumToken(tokens), SampleSum(tokens))

\* C14: for every well-formed line whose checksum token equals the sum of
\* its N samples, DataPoint::parse succeeds and the frame carries the decoded
\* timestamp, the two flags, the satellite count and the N samples in wire
\* order.
C14_WellFormedLineDecodes ==
    (pres # NotParsed /\ WellFormedLine(TokensOf(line))) =>
        LET tokens == TokensOf(line)
            n      == ParseU16(tokens[10]).v
        IN  /\ pres.tag = "Ok"
            /\ LET frame == pres.frame[1]
               IN  /\ frame.timestamp.some
                   /\ frame.timestamp.v = ParseI64(tokens[1]).v
                   /\ frame.flags.has_gps_fix
                        <=> \E i \in 1..Len(tokens[2]) : tokens[2][i] = "G"
                   /\ frame.flags.is_clipping
                        <=> \E i \in 1..Len(tokens[2]) : tokens[2][i] = "O"
                   /\ frame.fix = ParseU16(tokens[7]).v
                   /\ Len(frame.data) = n
                   /\ \A i \in 1..n :
                        frame.data[i]
                            = [num |-> ParseI64(tokens[10 + i]).v - 512,
                               den |-> 512]

\* The header declares more samples than the integer tokens that precede the
\* line's last token, its checksum.
FewerSamples(tokens) ==
    /\ FirstBadField(tokens) = 0
    /\ Len(tokens) >= 11
    /\ Len(tokens) - 11 < ParseU16(tokens[10]).v
    /\ \A k \in 11..(Len(tokens) - 1) : ParseI64(tokens[k]).some

\* C15: a line that declares N samples and has fewer than N sample tokens
\* before its checksum token is refused with the error for a wrong number of
\* samples ("Missing data"), not with a field-parse, missing-checksum or
\* checksum error, and no frame is returned.
C15_FewerSamplesIsCountMismatch ==
    (pres # NotParsed /\ FewerSamples(TokensOf(line)))
        => pres = Err("Missing", "data")

\* The declared number of integer samples is followed by more than one
\* token: surplus tokens lie before the line's last token, or after the
\* token that follows the samples.
SurplusTokens(tokens) ==
    /\ FirstBadField(tokens) = 0
    /\ Len(tokens) > 10 + ParseU16(tokens[10]).v + 1
    /\ \A k \in 11..(10 + ParseU16(tokens[10]).v) : ParseI64(tokens[k]).some

\* C16: DataPoint::parse accepts a line only if exactly N sample tokens lie
\* between the sample count and the checksum, the line's last token: a line
\* with surplus tokens after its first N samples is never accepted as a frame.
C16_SurplusTokensRefused ==
    (pres # NotParsed /\ SurplusTokens(TokensOf(line))) => pres.tag # "Ok"

\* Whether the token of header field i, one of 3..10, is a number of the
\* field's type.
HeaderFieldOk(i, tok) ==
    IF i \in {7, 10} THEN ParseU16(tok).some ELSE ParseF32(tok).some

\* The line with its timestamp token replaced by an integer.
WithTimestamp(l) ==
    DataLine([TokensOf(l) EXCEPT ![1] = Numeral(1700000000)])

\* C17: a timestamp token that is not an integer never makes
\* DataPoint::parse fail: the result is that of the same line with an integer
\* timestamp, but for the frame's timestamp, which is None; every other
\* header field that is present and does not parse gives the error of that
\* field.
C17_BadTimestampTolerated ==
    pres # NotParsed =>
        LET tokens == TokensOf(line)
        IN  /\ ~ParseI64(tokens[1]).some =>
                LET other == DataPointParse(WithTimestamp(line), build)
                IN  /\ pres.tag = other.tag
                    /\ pres.msg = other.msg
                    /\ pres.tag = "Ok" =>
                         pres.frame[1]
                            = [other.frame[1] EXCEPT !.timestamp = None]
            /\ \A i \in 3..10 :
                (/\ Len(tokens) >= i
                 /\ \A j \in 3..(i - 1) : HeaderFieldOk(j, tokens[j])
                 /\ ~HeaderFieldOk(i, tokens[i]))
                    => pres = Err("Failed to parse", FieldName[i])

\* A line whose timestamp is not an integer was decoded to a frame without
\* timestamp.
C17_Witness ==
    /\ pres # NotParsed
    /\ ~ParseI64(TokensOf(line)[1]).some
    /\ pres.tag = "Ok"
    /\ pres.frame[1].timestamp = None
    /\ Len(pres.frame[1].data) = 2

HasChar(tok, ch) == \E i \in 1..Len(tok) : tok[i] = ch

\* The line with its flags token replaced by the letter of a GPS fix.
WithFlags(l) == DataLine([TokensOf(l) EXCEPT ![2] = <<"G">>])

\* C18: for every flags token has_gps_fix is true exactly when the token
\* contains "G" and is_clipping exactly when it contains "O", whatever else
\* the token holds, and DataPoint::parse never fails on the flags: when the
\* token is present no error names them and the result is a frame or the
\* error that the same line gives with the flags "G".
C18_FlagsFromLetters ==
    pres # NotParsed =>
        LET tokens == TokensOf(line)
        IN  /\ Len(tokens) >= 2 =>
                /\ pres.msg \notin {<<"Failed to parse", "flags">>,
                                    <<"Missing", "flags">>}
                /\ pres.tag = DataPointParse(WithFlags(line), build).tag
                /\ pres.msg = DataPointParse(WithFlags(line), build).msg
            /\ pres.tag = "Ok" =>
                /\ pres.frame[1].flags.has_gps_fix <=> HasChar(tokens[2], "G")
                /\ pres.frame[1].flags.is_clipping <=> HasChar(tokens[2], "O")

\* A frame was decoded from a line whose flags hold "O" and no "G": it is
\* clipping and has no GPS fix.
C18_Witness ==
    /\ pres # NotParsed
    /\ pres.tag = "Ok"
    /\ HasChar(TokensOf(line)[2], "O")
    /\ ~HasChar(TokensOf(line)[2], "G")
    /\ pres.frame[1].flags.is_clipping
    /\ ~pres.frame[1].flags.has_gps_fix

\* The lines of a text: the pieces that end at each newline, and what
\* follows the last one when it is not empty.
RECURSIVE SplitLines(_)
SplitLines(text) ==
    LET ends == {i \in 1..Len(text) : text[i] = "\n"}
    IN  IF text = <<>> THEN <<>>
        ELSE IF ends = {} THEN <<text>>
        ELSE LET e == CHOOSE i \in ends : \A j \in ends : i <= j
             IN  <<SubSeq(text, 1, e - 1)>>
                 \o SplitLines(SubSeq(text, e + 1, Len(text)))

\* The set calls made on the metadata before the writer in use was made.
SetsBefore == {i \in 1..(LastNew - 1) : calls[i].op = "set"}

\* The last value set for a key before the writer in use was made.
LastValue(key) ==
    LET sets == {i \in SetsBefore : calls[i].key = key}
    IN  calls[CHOOSE i \in sets : \A j \in sets : j <= i].text

\* The keys of the preamble: the capture id, the sample rate, the keys set
\* by the caller and the two keys stamped by new().
PreambleKeys ==
    {"CAPTURE_ID", "SAMPLE_RATE", "CREATED", "VERSION"}
        \cup {calls[i].key : i \in SetsBefore}

\* C19: after new() followed by one init() the file starts with the line
\* "## BEGIN METADATA ##" and ends with the line "## END METADATA ##"; between
\* them there is exactly one line for the capture id, one for the sample
\* rate and one for each distinct extras key, those set by the caller and
\* the creation time and version stamped by new(); a key set more than once
\* has one line, with the last value set.
C19_PreambleOneLinePerKey ==
    (writer # <<>> /\ WriterCalls = <<Call("init", "", <<>>)>>) =>
        LET text  == Concat(files[writer[1].filename])
            lines == SplitLines(text)
            body  == 2..(Len(lines) - 1)
        IN  /\ Len(lines) >= 2
            /\ text[Len(text)] = "\n"
            /\ lines[1] = <<"## BEGIN METADATA ##">>
            /\ lines[Len(lines)] = <<"## END METADATA ##">>
            /\ \A i \in body :
                /\ Len(lines[i]) >= 4
                /\ SubSeq(lines[i], 1, 2) = <<"#", " ">>
                /\ lines[i][3] \in PreambleKeys
                /\ lines[i][4] = "\t\t"
            /\ \A key \in PreambleKeys :
                \E i \in body :
                    /\ lines[i][3] = key
                    /\ \A j \in body : lines[j][3] = key => j = i
                    /\ key \notin {"CAPTURE_ID", "SAMPLE_RATE", "CREATED",
                                   "VERSION"}
                        => SubSeq(lines[i], 5, Len(lines[i])) = LastValue(key)

\* NODE_ID was set twice, to two values, before new(), and one init()
\* followed.
C19_Witness ==
    /\ writer # <<>>
    /\ WriterCalls = <<Call("init", "", <<>>)>>
    /\ \E i, j \in SetsBefore :
        /\ i < j
        /\ calls[i].key = "NODE_ID"
        /\ calls[j].key = "NODE_ID"
        /\ calls[i].text # calls[j].text

\* The write_line and comment calls made on the writer in use.
LineCalls ==
    {i \in (LastNew + 1)..Len(calls) :
        calls[i].op \in {"write_line", "comment"}}

\* C20: the lines-written counter of a capture file is 0 after new(), grows
\* by one on each write_line and each comment, and is left as it is by
\* init() and the accessors: it is always the number of write_line and
\* comment calls made on the writer since new() returned it.
C20_CounterCountsLines ==
    writer # <<>> => writer[1].lines_written = Cardinality(LineCalls)

\* After new(), a write_line, a comment and an accessor the counter is 2.
C20_Witness ==
    /\ writer # <<>>
    /\ writer[1].lines_written = 2
    /\ Len(calls) = LastNew + 3
    /\ calls[LastNew + 1].op = "write_line"
    /\ calls[LastNew + 2].op = "comment"
    /\ calls[LastNew + 3].op \in {"init", "read"}

----------------------------------------------------------------------------
(***************************************************************************)
(* Further properties of the upload queue.                                 *)
(***************************************************************************)
\* An attempt to upload task k has ended, in success or in failure.
Attempted(k) == IsUploaded(k) \/ k \in everFailed

\* C21: queue_upload puts the task at the tail of the queue and the worker
\* takes the task at the head; a task taken for its first attempt is taken
\* after every task enqueued before it was attempted; a task whose upload
\* failed goes back behind every task that is waiting.
C21_TailInHeadOut ==
    [][/\ Len(enqueued') > Len(enqueued) =>
            upload_queue' = upload_queue \o <<enqueued'[Len(enqueued')]>>
       /\ (inflight = <<>> /\ inflight' # <<>>) =>
            /\ upload_queue # <<>>
            /\ inflight'[1] = upload_queue[1]
            /\ upload_queue' = SubSeq(upload_queue, 2, Len(upload_queue))
            /\ ~Attempted(inflight'[1].seq) =>
                 \A k \in 1..(inflight'[1].seq - 1) : Attempted(k)
       /\ (inflight # <<>> /\ inflight' = <<>> /\ uploaded' = uploaded) =>
            upload_queue' = upload_queue \o <<inflight[1]>>]_vars

\* Task 1 failed and waits behind task 3, enqueued after it, while task 2 is
\* being attempted for the first time.
C21_Witness ==
    /\ everFailed = {1}
    /\ inflight # <<>>
    /\ inflight[1].seq = 2
    /\ Len(upload_queue) = 2
    /\ upload_queue[1].seq = 3
    /\ upload_queue[2].seq = 1

\* C22: a task whose upload succeeded is consumed: it is neither in the
\* queue nor with the worker again, and it is among the uploaded tasks once.
C22_UploadedOnce ==
    \A k \in 1..Len(enqueued) :
        IsUploaded(k) =>
            /\ Held(k) = 0
            /\ Cardinality({i \in 1..Len(uploaded) : uploaded[i] = k}) = 1

\* Task 1 was uploaded at its second attempt and is held nowhere, while
\* other tasks wait or are being attempted.
C22_Witness ==
    /\ IsUploaded(1)
    /\ 1 \in everFailed
    /\ Held(1) = 0
    /\ upload_queue # <<>>
    /\ inflight # <<>>

\* C23: when upload_object stored a task's file the task is completed
\* whatever gzip did afterwards: it joins the uploaded tasks, it is not put
\* back into the queue nor counted as failed, and the worker goes on
\* draining.
C23_GzipFailureIgnored ==
    [][Len(stored') > Len(stored) =>
        LET done == stored'[Len(stored')]
        IN  /\ done.gzip \in GzipOutcomes
            /\ inflight = <<[inflight[1] EXCEPT !.seq = done.seq]>>
            /\ uploaded' = Append(uploaded, done.seq)
            /\ upload_queue' = upload_queue
            /\ everFailed' = everFailed
            /\ inflight' = <<>>
            /\ wpc' = "drain"]_vars

\* gzip could not be run after the first upload and exited with a failure
\* after the second; both tasks are uploaded, in one poll tick, and the
\* worker is attempting the third.
C23_Witness ==
    /\ Len(stored) = 2
    /\ stored[1].gzip = "spawn_error"
    /\ stored[2].gzip = "exit_failure"
    /\ uploaded = <<stored[1].seq, stored[2].seq>>
    /\ Len(tickLog) = 2
    /\ everFailed = {}
    /\ wpc = "upload"

\* C24: is_alive() is true exactly when run() started a worker, shutdown()
\* has not taken its handle and the worker thread has ended; it is false
\* before run(), while the worker runs and once shutdown() has returned.
C24_IsAliveReportsTermination ==
    ~innerLocked =>
        /\ IsAlive <=> /\ wpc # "unspawned"
                       /\ sdpc = "idle"
                       /\ wpc \in {"finished", "panicked"}
        /\ wpc = "unspawned" => ~IsAlive
        /\ wpc \in {"select", "cancel_seen", "drain", "upload"} => ~IsAlive
        /\ sdpc = "returned" => ~IsAlive

\* The worker thread has ended without a shutdown and is_alive() is true,
\* with a task waiting in the queue.
C24_Witness ==
    /\ ~innerLocked
    /\ IsAlive
    /\ sdpc = "idle"
    /\ upload_queue # <<>>

----------------------------------------------------------------------------
(***************************************************************************)
(* Further properties of the acquisition loop.                             *)
(***************************************************************************)
\* The interval boundary nearest to a time, and whether the time is in the
\* second of that boundary.
Boundary(t) == DurationRound(t, IntervalTicks)

InBoundarySecond(t) == Boundary(t) = DurationRound(t, TicksPerSecond)

\* C25: at most one rotation happens per interval boundary: a rotation
\* check that runs in the boundary second of the previous rotation does not
\* rotate.
C25_OneRotationPerBoundary ==
    [][(rotations' # rotations /\ rotations > 0)
          => Boundary(tick_start') # Boundary(last_rotate)]_vars

\* Two iterations ran their rotation check in the second of one boundary,
\* at two times, and only the first rotated.
C25_Witness ==
    /\ iters = 2
    /\ rotations = 1
    /\ mpc = "read"
    /\ InBoundarySecond(tick_start)
    /\ tick_start > last_rotate
    /\ Boundary(tick_start) = Boundary(last_rotate)

\* C26: a rotation check that runs in the second of an interval boundary
\* rotates whenever at least the configured interval has passed since the
\* previous rotation, so a loop that checks in every boundary second rotates
\* at every consecutive boundary.
C26_RotatesAtEveryBoundary ==
    [][(/\ iters' = iters + 1
        /\ InBoundarySecond(tick_start')
        /\ tick_start' - last_rotate >= IntervalTicks)
          => rotations' = rotations + 1]_vars

\* C27: the loop tests the shutdown flag at the top of each iteration and
\* each iteration ends: once the flag is set no further iteration begins
\* (the one in progress is the last), the loop leaves at its next test, and
\* the process ends; once the loop has left nothing is rotated, written or
\* enqueued.
C27_CooperativeCancellation ==
    /\ [][/\ shutdown => iters' = iters
          /\ (shutdown /\ mpc = "top" /\ mpc' # mpc) => mpc' = "done"
          /\ mpc = "done" =>
                /\ rotations' = rotations
                /\ files' = files
                /\ enqueued' = enqueued]_vars
    /\ shutdown ~> exited

\* The flag was set while an iteration was in progress and the loop has left
\* at its next test, before the signal thread ended the process.
C27_Witness ==
    /\ shutdown
    /\ mpc = "done"
    /\ sdpc = "stored"
    /\ iters = MaxIters
    /\ lastRead.kind = "line"

\* C28: within a rotation the active capture file is finalized first, then
\* its task is enqueued, then the new file is opened: when a task is
\* enqueued no capture file is open, so no task is in the queue while its
\* file is the open, active capture file.
C28_FinalizeBeforeEnqueue ==
    [][Len(enqueued') > Len(enqueued) => writer = <<>>]_vars

\* C29: for a decoded data line the loop first writes the line without its
\* leading marker; when the frame has no timestamp one comment with the
\* computer's time follows that line, and when it has one nothing else is
\* written.
C29_FrameLineThenTimeComment ==
    (lastRead.kind = "line" /\ pres # NotParsed /\ pres.tag = "Ok") =>
        LET wrote == lastRead.wrote
        IN  /\ Len(wrote) >= 1
            /\ EndsWith(wrote[1], SkipFirst(line))
            /\ IF pres.frame[1].timestamp.some
               THEN Len(wrote) = 1
               ELSE /\ Len(wrote) = 2
                    /\ EndsWith(wrote[2],
                                CommentLine(ComputerTime(tick_start)))

\* C30: an iteration whose read ends in a timeout or in an I/O error other
\* than a broken pipe changes nothing after its rotation check: nothing is
\* written, the lines-written counter and the upload queue are as they were,
\* no frame reaches the status sink, and the loop is at the top of its next
\* iteration.
C30_FailedReadChangesNothing ==
    [][(/\ mpc = "read"
        /\ lastRead' # lastRead
        /\ \/ lastRead'.kind = "timeout"
           \/ lastRead'.kind = "io_error" /\ lastRead'.err # "BrokenPipe")
          => /\ files' = files
             /\ writer' = writer
             /\ upload_queue' = upload_queue
             /\ enqueued' = enqueued
             /\ pushed' = pushed
             /\ lastRead'.wrote = <<>>
             /\ ~lastRead'.pushed
             /\ mpc' = "top"
             /\ ~exited']_vars

\* A read timed out in an iteration that had rotated the capture file, with
\* lines written before.
C30_Witness ==
    /\ lastRead.kind = "timeout"
    /\ mpc = "top"
    /\ iters = 2
    /\ rotations >= 1
    /\ writer # <<>>
    /\ \E name \in DOMAIN files : Len(files[name]) >= 2

\* C31: a line that starts with the comment marker is not handed to the
\* decoder and is written by exactly one comment(); a line that starts with
\* neither marker is discarded, the capture files, the lines-written counter
\* and the status sink staying as they were; only a line that starts with
\* the data marker reaches the decoder.
C31_LineClassification ==
    [][(mpc = "read" /\ lastRead'.kind = "line") =>
          /\ StartsWith(line', "#") =>
                /\ pres' = NotParsed
                /\ lastRead'.wrote = <<CompleteLine(CommentLine(line'))>>
                /\ files' = WriteAll(files, writer[1], lastRead'.wrote[1])
                /\ writer'[1].lines_written = writer[1].lines_written + 1
                /\ pushed' = pushed
          /\ (~StartsWith(line', "#") /\ ~StartsWith(line', "$")) =>
                /\ pres' = NotParsed
                /\ lastRead'.wrote = <<>>
                /\ files' = files
                /\ writer' = writer
                /\ pushed' = pushed
          /\ pres' # NotParsed => StartsWith(line', "$")]_vars

\* A comment line was read and written by one comment() after a data line
\* had been decoded and written.
C31_Witness ==
    /\ iters = 2
    /\ mpc = "top"
    /\ lastRead.kind = "line"
    /\ pres = NotParsed
    /\ line = CommentInput
    /\ Len(lastRead.wrote) = 1
    /\ writer[1].lines_written = 2

----------------------------------------------------------------------------
(***************************************************************************)
(* Properties of the worker's cancellation and of its lock.                *)
(***************************************************************************)
\* The queue `later` holds every task of `earlier`, in order, at its head.
StartsWithQueue(later, earlier) ==
    /\ Len(later) >= Len(earlier)
    /\ SubSeq(later, 1, Len(earlier)) = earlier

----------------------------------------------------------------------------
(***************************************************************************)
(* Properties of the serial read.                                          *)
(***************************************************************************)
\* The read tasks still running: in read_line or waiting for the mutex.
Outstanding == reading + queuedReads

\* C34: when the timeout of a read wins, the loop goes to the top of its
\* next iteration with the read's task still running; the line such a task
\* returns later is dropped: it is not decoded, not written to a capture
\* file and not given to the status sink, and the loop stays where it is.
\* At most one task is in read_line at a time, and a line the loop handles
\* was read with no other task in read_line.
C34_AbandonedReadDiscarded ==
    [][/\ (mpc = "read" /\ lastRead'.kind = "timeout") =>
             /\ mpc' = "top"
             /\ Outstanding' = Outstanding + 1
       /\ lateReads' > lateReads =>
             /\ line' = line
             /\ pres' = pres
             /\ files' = files
             /\ writer' = writer
             /\ pushed' = pushed
             /\ lastRead' = lastRead
             /\ mpc' = mpc
       /\ reading' <= 1
       /\ (mpc = "read" /\ lastRead'.kind = "line") => reading = 0]_vars

\* The first read timed out and its task returned a line while the second
\* iteration was at its read; the loop then read a good line of its own,
\* which is the only line written after the preamble.
C34_Witness ==
    /\ iters = 2
    /\ lateReads = 1
    /\ Outstanding = 0
    /\ mpc = "top"
    /\ lastRead.kind = "line"
    /\ line = GoodLine
    /\ writer[1].lines_written = 1
    /\ Len(files[writer[1].filename]) = 2

----------------------------------------------------------------------------
(***************************************************************************)
(* Properties of the checksum over negative samples.                       *)
(***************************************************************************)
\* The line has a sample block with a negative sample in it.
HasNegativeSample(tokens) ==
    /\ HasSampleBlock(tokens)
    /\ \E k \in 11..(10 + ParseU16(tokens[10]).v) : ParseI64(tokens[k]).v < 0

\* C35: for a line with a negative sample neither decoder panics, and a
\* frame is returned only when the checksum token is the numeral of the
\* signed sum of the samples; a line whose samples have a negative sum is
\* not accepted.
C35_NegativeSamplesChecked ==
    HasNegativeSample(TokensOf(line)) =>
        \A r \in {pres, fres} :
            r # NotParsed =>
                /\ r.tag # "Panic"
                /\ r.tag = "Ok" =>
                    /\ SampleSum(TokensOf(line)) >= 0
                    /\ Declares(ChecksumToken(TokensOf(line)),
                                SampleSum(TokensOf(line)))

----------------------------------------------------------------------------
(***************************************************************************)
(* Properties of the capture files handed to the upload queue.             *)
(***************************************************************************)
\* The capture file `name` is the file of an enqueued task.
IsEnqueued(name) ==
    \E i \in 1..Len(enqueued) :
        enqueued[i].file_path = DataDir \o <<"/">> \o name

\* C36: once the task of a capture file has been enqueued the loop leaves
\* the file as it is: no step creates it again, truncates it or appends to
\* it, so the file keeps the content it had at its rotation.
C36_EnqueuedFileFrozen ==
    [][\A name \in DOMAIN files :
          IsEnqueued(name) =>
              /\ name \in DOMAIN files'
              /\ files'[name] = files[name]]_vars

----------------------------------------------------------------------------
(***************************************************************************)
(* Liveness of the upload queue.                                           *)
(***************************************************************************)
\* The worker thread is in its loop.
Running == wpc \in {"select", "drain", "upload"}

\* The upload of task k succeeds after finitely many failed attempts: if it
\* is attempted again and again, an attempt succeeds.
Succeeds(k) ==
    SF_vars(inflight # <<>> /\ inflight[1].seq = k /\ WorkerUploadOk)

\* Every task is out of the queue and none is being uploaded.
Drained == upload_queue = <<>> /\ inflight = <<>>

\* C37: with a worker that is never cancelled and keeps taking poll ticks,
\* and uploads that each succeed after finitely many failed attempts, every
\* task enqueued while the worker runs is eventually uploaded, and the queue
\* is eventually empty (the clients enqueue MaxTasks tasks at most).
C37_EveryTaskUploaded ==
    ([]~cancelled /\ \A k \in 1..MaxTasks : Succeeds(k)) =>
        /\ \A k \in 1..MaxTasks :
              (Running /\ Len(enqueued) >= k) ~> IsUploaded(k)
        /\ (Running /\ Len(enqueued) = MaxTasks) ~> [](Drained)

\* Every task failed at least once and was uploaded later; the queue is
\* empty and the worker, not cancelled, waits for its next tick.
C37_Witness ==
    /\ ~cancelled
    /\ wpc = "select"
    /\ Len(enqueued) = MaxTasks
    /\ everFailed = 1..MaxTasks
    /\ \A k \in 1..MaxTasks : IsUploaded(k)
    /\ Drained

\* The tasks other than f.
Others(f) == (1..MaxTasks) \ {f}

\* C38: a task f whose upload fails at every attempt does not starve the
\* others.  With a worker that is never cancelled and keeps taking poll
\* ticks, every other task enqueued while the worker runs, whose upload
\* succeeds after finitely many failed attempts, is eventually uploaded.
\* A task that failed and is not uploaded is in the queue or being
\* uploaded, and a failed attempt is the last of its tick, so the failing
\* task is attempted at most once in a tick.
C38_NoStarvation ==
    /\ \A f \in 1..MaxTasks :
          ([]~cancelled /\ []~IsUploaded(f) /\ \A k \in Others(f) : Succeeds(k))
             => \A k \in Others(f) :
                   (Running /\ Len(enqueued) >= k) ~> IsUploaded(k)
    /\ [](\A k \in everFailed : ~IsUploaded(k) => Held(k) = 1)
    /\ [](\A i \in 1..Len(tickLog) :
             /\ ~tickLog[i].ok => i = Len(tickLog)
             /\ \A j \in 1..Len(tickLog) :
                   tickLog[j].seq = tickLog[i].seq => j = i)

\* Task 1 failed before tasks 2 and 3 were uploaded and failed again in a
\* tick of its own; it waits in the queue of a worker that is not cancelled.
C38_Witness ==
    /\ ~cancelled
    /\ wpc = "select"
    /\ uploaded = <<2, 3>>
    /\ SeqNumbers(upload_queue) = <<1>>
    /\ Len(tickLog) = 1
    /\ tickLog[1].seq = 1
    /\ ~tickLog[1].ok

====
